---- MODULE Spec2Model ----
(***************************************************************************)
(* A model of the dataframe widgets of the front end: the cell functions   *)
(* of DataFrame/DataFrameCells.tsx and DataGrid/DataGridCells.tsx, the     *)
(* data loader and click handlers of DataFrame/DataFrame.tsx and of the    *)
(* older DataGrid components.                                              *)
(*                                                                         *)
(* JavaScript values are tagged records [t |-> <type>, v |-> <payload>].   *)
(* Numbers are held in hundredths (Unit = 100 stands for 1.0), which is    *)
(* the resolution of the progress label.  A thrown exception is the value  *)
(* Thrown(msg); a caller without try/catch passes it on.                   *)
(***************************************************************************)
EXTENDS Integers, Sequences, FiniteSets, TLC

VARIABLES
  \* ---- DataFrame component (DataFrame.tsx)
  dataProp,      \* the `data` prop: the name of the current Quiver table
  quiver,        \* table name -> source table (the Quiver objects)
  colsCfg,       \* the element.columns configuration (parsed JSON entries)
  cachedContent, \* EditingCache.cachedContent: col -> row -> GridCell
  sortState,     \* useState<ColumnSortConfig>: NoSort or [id, direction, mode]
  columnSizes,   \* useState<Map<string, number>>: committed column sizes
  rendered,      \* what the closures of the last render captured
  steps,         \* number of events handled so far (bounds the run)
  \* ---- calls of the pure cell functions
  pc,            \* "in": arguments chosen, "out": the call has returned
  call,          \* the arguments of the call
  ret            \* what each implementation returned

vars == <<dataProp, quiver, colsCfg, cachedContent, sortState, columnSizes, rendered,
          steps, pc, call, ret>>

frameVars == <<dataProp, quiver, colsCfg, cachedContent, sortState, columnSizes,
               rendered, steps>>
callVars == <<pc, call, ret>>

-----------------------------------------------------------------------------
(* JavaScript values *)

Unit == 100

Null == [t |-> "null"]
Undefined == [t |-> "undefined"]
NaN == [t |-> "nan"]
Bool(b) == [t |-> "boolean", v |-> b]
Num(n) == [t |-> "number", v |-> n]
Str(s) == [t |-> "string", v |-> s]
Arr(a) == [t |-> "array", v |-> a]

Thrown(msg) == [kind |-> "THROWN", msg |-> msg]
IsThrown(x) == "kind" \in DOMAIN x /\ x.kind = "THROWN"

\* notNullOrUndefined of src/lib/utils
notNullOrUndefined(x) == x.t \notin {"null", "undefined"}

\* typeof x === "boolean" / "string" / "number"
typeof(x) ==
  CASE x.t = "boolean" -> "boolean"
    [] x.t = "string" -> "string"
    [] x.t \in {"number", "nan"} -> "number"
    [] x.t = "undefined" -> "undefined"
    [] OTHER -> "object"

\* StringToNumber on the strings of the model: "" is 0, a decimal literal
\* is its value, anything else is NaN.
StringToNumber(s) ==
  CASE s = "" -> Num(0)
    [] s = "0" -> Num(0)
    [] s = "0.5" -> Num(50)
    [] s = "1" -> Num(Unit)
    [] s = "2" -> Num(2 * Unit)
    [] s = "-1" -> Num(0 - Unit)
    [] OTHER -> NaN

\* Number.prototype.toString for a number held in hundredths.
Digits2(k) == IF k < 10 THEN "0" \o ToString(k)
              ELSE IF k % 10 = 0 THEN ToString(k \div 10) ELSE ToString(k)
NumberToString(n) ==
  LET a == IF n < 0 THEN 0 - n ELSE n
      body == IF a % Unit = 0 THEN ToString(a \div Unit)
              ELSE ToString(a \div Unit) \o "." \o Digits2(a % Unit)
  IN IF n < 0 THEN "-" \o body ELSE body

RECURSIVE JoinComma(_)
\* String(x): the ToString conversion
String(x) ==
  CASE x.t = "string" -> x.v
    [] x.t = "number" -> NumberToString(x.v)
    [] x.t = "nan" -> "NaN"
    [] x.t = "boolean" -> IF x.v THEN "true" ELSE "false"
    [] x.t = "null" -> "null"
    [] x.t = "undefined" -> "undefined"
    [] x.t \in {"array", "int32array"} -> JoinComma(x.v)
JoinComma(a) ==
  IF a = <<>> THEN ""
  ELSE LET h == IF notNullOrUndefined(a[1]) THEN String(a[1]) ELSE ""
       IN IF Len(a) = 1 THEN h ELSE h \o "," \o JoinComma(Tail(a))

\* Number(x): the ToNumber conversion
Number(x) ==
  CASE x.t = "number" -> x
    [] x.t = "nan" -> NaN
    [] x.t = "boolean" -> IF x.v THEN Num(Unit) ELSE Num(0)
    [] x.t = "null" -> Num(0)
    [] x.t = "undefined" -> NaN
    [] x.t = "string" -> StringToNumber(x.v)
    [] x.t \in {"array", "int32array"} -> StringToNumber(JoinComma(x.v))

NumberIsNaN(x) == x.t = "nan"

\* the ToBoolean conversion: what `x ? a : b` and `if (x)` test
truthy(x) ==
  CASE x.t \in {"null", "undefined", "nan"} -> FALSE
    [] x.t = "boolean" -> x.v
    [] x.t = "number" -> x.v # 0
    [] x.t = "string" -> x.v # ""
    [] OTHER -> TRUE

\* { ...obj, ...upd }: object spread, the later fields winning
Spread(obj, upd) == upd @@ obj

-----------------------------------------------------------------------------
(* Type-name strings.  A type name is a sequence of tokens, so that case  *)
(* and surrounding white space are part of the value: <<" ", "TEXT">> is  *)
(* the string " TEXT".                                                    *)

TypeString(toks) == [t |-> "string", v |-> toks]

\* String.prototype.toLowerCase, token by token
LowerToken(tok) ==
  CASE tok = "TEXT" -> "text"
    [] tok = "Text" -> "text"
    [] tok = "Number" -> "number"
    [] tok = "BOOLEAN" -> "boolean"
    [] tok = "Bar-Chart" -> "bar-chart"
    [] tok = "Progress-Chart" -> "progress-chart"
    [] tok = "Bool" -> "bool"
    [] tok = "Int64" -> "int64"
    [] tok = "FOO" -> "foo"
    [] OTHER -> tok
toLowerCase(toks) == [i \in DOMAIN toks |-> LowerToken(toks[i])]

IsWhiteSpace(tok) == tok \in {" ", "\t"}
RECURSIVE trimStart(_)
trimStart(toks) ==
  IF toks # <<>> /\ IsWhiteSpace(Head(toks)) THEN trimStart(Tail(toks))
  ELSE toks
RECURSIVE trimEnd(_)
trimEnd(toks) ==
  IF toks # <<>> /\ IsWhiteSpace(toks[Len(toks)])
  THEN trimEnd(SubSeq(toks, 1, Len(toks) - 1))
  ELSE toks
\* String.prototype.trim
trim(toks) == trimEnd(trimStart(toks))

RECURSIVE Join(_)
\* the string a token sequence spells
Join(toks) == IF toks = <<>> THEN "" ELSE Head(toks) \o Join(Tail(toks))

startsWithList(toks) ==
  toks # <<>> /\ Head(toks) \in {"list", "list[int64]", "list[unicode]"}

-----------------------------------------------------------------------------
(* DataFrame/DataFrameCells.tsx *)

\* enum ColumnType: Object.values(ColumnType)
ColumnType ==
  {"text", "number", "boolean", "list", "url", "image", "bar-chart",
   "line-chart", "progress-chart"}

\* getColumnTypeFromConfig(typeName?: string)
getColumnTypeFromConfig(typeName) ==
  IF typeName.t = "undefined" \/ typeName.v = <<>>
  THEN "text"
  ELSE LET name == Join(trim(toLowerCase(typeName.v)))
       IN IF \E type \in ColumnType : type = name THEN name ELSE "text"

\* Quiver.getTypeName(type) of src/lib/Quiver
QuiverGetTypeName(quiverType) ==
  IF quiverType.pandas_type = <<"object">> THEN quiverType.numpy_type
  ELSE quiverType.pandas_type

\* getColumnTypeFromQuiver(quiverType)
getColumnTypeFromQuiver(quiverType) ==
  LET raw == QuiverGetTypeName(quiverType)
      typeName == trim(toLowerCase(raw))
      name == Join(typeName)
  IN IF raw = <<>> THEN "text"
     ELSE IF name \in {"unicode"} THEN "text"
     ELSE IF name \in {"date", "datetime", "datetimetz"} THEN "text"
     ELSE IF name = "bool" THEN "boolean"
     ELSE IF name \in {"int64", "float64", "range"} THEN "number"
     ELSE IF startsWithList(typeName) THEN "list"
     ELSE "text"

\* the cases of the switch of getCellTemplate, one per column type
cellTemplateOf(type, readonly, style) ==
     CASE type = "text" ->
            [kind |-> "text", data |-> Str(""), displayData |-> Str(""),
             allowOverlay |-> TRUE, readonly |-> readonly, style |-> style]
       [] type = "boolean" ->
            [kind |-> "boolean", data |-> Bool(FALSE), readonly |-> readonly,
             allowOverlay |-> FALSE, style |-> style]
       [] type = "number" ->
            [kind |-> "number", data |-> Undefined, displayData |-> Str(""),
             readonly |-> readonly, allowOverlay |-> TRUE,
             contentAlign |-> "right", style |-> style]
       [] type = "list" ->
            [kind |-> "bubble", data |-> Arr(<<>>), allowOverlay |-> TRUE,
             style |-> style]
       [] type = "url" ->
            [kind |-> "uri", data |-> Str(""), readonly |-> readonly,
             allowOverlay |-> TRUE, style |-> style]
       [] type = "image" ->
            [kind |-> "image", data |-> Arr(<<>>), displayData |-> Arr(<<>>),
             allowAdd |-> ~readonly, allowOverlay |-> TRUE, style |-> style]
       [] type = "line-chart" ->
            [kind |-> "custom", allowOverlay |-> FALSE, copyData |-> "[]",
             data |-> [kind |-> "sparkline-cell", values |-> <<>>,
                       displayValues |-> <<>>, graphKind |-> "line",
                       yAxis |-> <<0, Unit>>]]
       [] type = "bar-chart" ->
            [kind |-> "custom", allowOverlay |-> FALSE, copyData |-> "[]",
             data |-> [kind |-> "sparkline-cell", values |-> <<>>,
                       graphKind |-> "bar", yAxis |-> <<0, Unit>>]]
       [] type = "progress-chart" ->
            [kind |-> "custom", allowOverlay |-> FALSE, copyData |-> "",
             data |-> [kind |-> "range-cell", min |-> 0, max |-> Unit,
                       value |-> Num(0), step |-> 10, label |-> "0%",
                       measureLabel |-> "100%"]]

\* getCellTemplate with the default branch of its switch dropped: a type
\* outside the enum gets the text template
getCellTemplate_NoDefault(type, readonly, isIndex) ==
  cellTemplateOf(IF type \in ColumnType THEN type ELSE "text", readonly,
                 IF isIndex THEN "faded" ELSE "normal")

\* getCellTemplate(type, readonly, isIndex)
getCellTemplate(type, readonly, isIndex) ==
  IF type \in ColumnType
  THEN cellTemplateOf(type, readonly, IF isIndex THEN "faded" ELSE "normal")
  ELSE Thrown("Unsupported cell type: " \o type)

\* getColumnSortMode(columnType)
getColumnSortMode(columnType) ==
  IF columnType = "number" \/ columnType = "progress-chart" THEN "smart"
  ELSE "default"

\* getEmptyCell()
getEmptyCell == [kind |-> "loading", allowOverlay |-> FALSE]

\* getErrorCell(errorMsg, errorDetails = "")
getErrorCell(errorMsg, errorDetails) ==
  Spread(getCellTemplate("text", TRUE, FALSE),
         [data |-> Str(errorMsg \o (IF errorDetails # ""
                                    THEN "\n" \o errorDetails ELSE "")),
          displayData |-> Str(errorMsg),
          themeOverride |-> [textDark |-> "#ff4b4b"]])

\* Quiver.format(content, contentType) of src/lib/Quiver: the text shown for
\* a value, "<NA>" for a missing one
QuiverFormat(content) ==
  IF notNullOrUndefined(content) THEN String(content) ELSE "<NA>"

\* displayContent.replace(/(\r\n|\n|\r)/gm, " ")
removeLineBreaks(s) == IF s = "a\nb" THEN "a b" ELSE s

\* getDisplayContent(quiverCell)
getDisplayContent(quiverCell) ==
  LET displayContent ==
        IF quiverCell.displayContent.t = "string"
           /\ quiverCell.displayContent.v # ""
        THEN quiverCell.displayContent.v
        ELSE QuiverFormat(quiverCell.content)
  IN Str(removeLineBreaks(displayContent))

\* extractCssProperty(htmlElementId, property, cssStyle): the value of the
\* property in the rule of that element, a style sheet being held as
\* element id -> property -> value
extractCssProperty(htmlElementId, property, cssStyle) ==
  IF htmlElementId \in DOMAIN cssStyle
     /\ property \in DOMAIN cssStyle[htmlElementId]
  THEN Str(cssStyle[htmlElementId][property])
  ELSE Undefined

\* applyPandasStylerCss(cell, cssId, cssStyles)
applyPandasStylerCss(cell, cssId, cssStyles) ==
  LET fontColor == extractCssProperty(cssId, "color", cssStyles)
      backgroundColor ==
        extractCssProperty(cssId, "background-color", cssStyles)
      withFont == IF fontColor.t = "string" /\ fontColor.v # ""
                  THEN [textDark |-> fontColor.v] ELSE <<>>
      themeOverride ==
        IF backgroundColor.t = "string" /\ backgroundColor.v # ""
        THEN Spread(withFont, [bgCell |-> backgroundColor.v])
        ELSE withFont
  IN Spread(cell, [themeOverride |-> themeOverride])

\* JSON.parse(JSON.stringify(x)) of a value nested in an array: what JSON
\* cannot hold (undefined, NaN) comes back as null
RECURSIVE jsonItem(_)
jsonItem(x) ==
  CASE x.t \in {"undefined", "nan"} -> Null
    [] x.t = "array" -> Arr([i \in DOMAIN x.v |-> jsonItem(x.v[i])])
    [] OTHER -> x

\* fillListCell(cell, data)
fillListCell(cell, data) ==
  LET parsed == jsonItem(data)
      cellData == IF ~notNullOrUndefined(data) THEN Arr(<<>>)
                  ELSE IF parsed.t = "array" THEN parsed
                  ELSE Arr(<<Str(String(parsed))>>)
  IN Spread(cell, [data |-> cellData])

\* fillUrlCell(cell, data)
fillUrlCell(cell, data) ==
  Spread(cell, [data |-> IF notNullOrUndefined(data) THEN Str(String(data))
                         ELSE Str("")])

\* fillTextCell(cell, data, displayData)
fillTextCell(cell, data, displayData) ==
  Spread(cell,
         [data |-> IF typeof(data) = "string" \/ ~notNullOrUndefined(data)
                   THEN data ELSE displayData,
          displayData |-> displayData])

\* fillBooleanCell that takes a missing value for an incompatible one
fillBooleanCell_StrictBoolean(cell, data) ==
  IF typeof(data) # "boolean"
  THEN getErrorCell("Incompatible boolean value: " \o String(data), "")
  ELSE Spread(cell, [data |-> data])

\* fillBooleanCell(cell, data)
fillBooleanCell(cell, data) ==
  IF notNullOrUndefined(data) /\ typeof(data) # "boolean"
  THEN getErrorCell("Incompatible boolean value: " \o String(data), "")
  ELSE Spread(cell, [data |-> data])

\* data[0]: undefined on an empty array
first(a) == IF a = <<>> THEN Undefined ELSE a[1]

\* fillNumberCell(cell, data, displayData)
fillNumberCell(cell, data, displayData) ==
  LET cellData == IF ~notNullOrUndefined(data) THEN Undefined
                  ELSE IF data.t = "int32array" THEN Number(first(data.v))
                  ELSE Number(data)
  IN IF notNullOrUndefined(data) /\ NumberIsNaN(cellData)
     THEN getErrorCell("Incompatible number value: " \o String(data), "")
     ELSE Spread(cell, [data |-> cellData, displayData |-> displayData])

\* fillImageCell(cell, data)
fillImageCell(cell, data) ==
  LET imageUrls == IF notNullOrUndefined(data)
                   THEN Arr(<<Str(String(data))>>) ELSE Arr(<<>>)
  IN Spread(cell, [data |-> imageUrls, displayData |-> imageUrls])

\* a > b and a < b on numbers: false when either side is NaN
Greater(a, b) == a.t = "number" /\ b.t = "number" /\ a.v > b.v
Less(a, b) == a.t = "number" /\ b.t = "number" /\ a.v < b.v

\* a - b and a / b of the normalisation, in hundredths (rounded down);
\* 0 / 0 and anything with NaN is NaN
Minus(a, b) == IF a.t = "number" /\ b.t = "number" THEN Num(a.v - b.v)
               ELSE NaN
Divide(a, b) ==
  IF a.t # "number" \/ b.t # "number" THEN NaN
  ELSE IF b.v = 0 THEN (IF a.v = 0 THEN NaN ELSE [t |-> "infinity"])
  ELSE Num((a.v * Unit) \div b.v)

RECURSIVE chartForEach(_, _)
\* the chartData.forEach callback of fillChartCell, run over the rest of
\* the array from the accumulator acc = [max, min, converted]; the return
\* inside the callback only ends that one call
chartForEach(rest, acc) ==
  IF rest = <<>> THEN acc
  ELSE LET convertedValue == Number(Head(rest))
           maxValue == IF Greater(convertedValue, acc.max)
                       THEN convertedValue ELSE acc.max
           minValue == IF Less(convertedValue, acc.min)
                       THEN convertedValue ELSE acc.min
       IN chartForEach(Tail(rest),
            [max |-> maxValue, min |-> minValue,
             converted |-> IF NumberIsNaN(convertedValue) THEN acc.converted
                           ELSE Append(acc.converted, convertedValue)])

\* JSON.stringify of an array of numbers
jsonNumbers(a) == "[" \o JoinComma(a) \o "]"

\* fillChartCell(cell, data)
fillChartCell(cell, data) ==
  IF ~notNullOrUndefined(data) THEN getEmptyCell
  ELSE IF data.t \notin {"array", "vector"}
  THEN getErrorCell("Incompatible chart value: " \o String(data),
                    "The provided value is not an array.")
  ELSE
    LET chartData == data.v
        loop == IF Len(chartData) >= 1
                THEN chartForEach(chartData,
                       [max |-> Number(chartData[1]),
                        min |-> Number(chartData[1]), converted |-> <<>>])
                ELSE [max |-> NaN, min |-> NaN, converted |-> <<>>]
        convertedChartData == loop.converted
        normalizedChartData ==
          IF Len(chartData) >= 1
             /\ (Greater(loop.max, Num(Unit)) \/ Less(loop.min, Num(0)))
          THEN [i \in DOMAIN convertedChartData |->
                  Divide(Minus(convertedChartData[i], loop.min),
                         Minus(loop.max, loop.min))]
          ELSE convertedChartData
    IN Spread(cell,
              [copyData |-> jsonNumbers(convertedChartData),
               data |-> Spread(IF "data" \in DOMAIN cell THEN cell.data
                               ELSE <<>>,
                               [values |-> normalizedChartData,
                                displayValues |-> convertedChartData])])

\* Math.round(cellData * 100).toString() + "%" for cellData in hundredths
percentLabel(n) == ToString((n * 100) \div Unit) \o "%"

\* fillProgressCell that clamps the value into [0, 1] instead of rejecting it
fillProgressCell_Clamped(cell, data) ==
  IF ~notNullOrUndefined(data) THEN getEmptyCell
  ELSE
    LET cellData == Number(data)
        clamped == IF Less(cellData, Num(0)) THEN Num(0)
                   ELSE IF Greater(cellData, Num(Unit)) THEN Num(Unit)
                   ELSE cellData
    IN IF NumberIsNaN(cellData)
       THEN getErrorCell("Incompatible progress value: " \o String(data),
                         "The value has to be between 0 and 1.")
       ELSE Spread(cell,
                   [copyData |-> String(data),
                    data |-> Spread(IF "data" \in DOMAIN cell THEN cell.data
                                    ELSE <<>>,
                                    [value |-> clamped,
                                     label |-> percentLabel(clamped.v)])])

\* fillProgressCell(cell, data)
fillProgressCell(cell, data) ==
  IF ~notNullOrUndefined(data) THEN getEmptyCell
  ELSE
    LET cellData == Number(data)
    IN IF NumberIsNaN(cellData) \/ Less(cellData, Num(0))
          \/ Greater(cellData, Num(Unit))
       THEN getErrorCell("Incompatible progress value: " \o String(data),
                         "The value has to be between 0 and 1.")
       ELSE Spread(cell,
                   [copyData |-> String(data),
                    data |-> Spread(IF "data" \in DOMAIN cell THEN cell.data
                                    ELSE <<>>,
                                    [value |-> cellData,
                                     label |-> percentLabel(cellData.v)])])

\* cell.kind, or for a custom cell (cell.data as any)?.kind; "" stands for
\* undefined
cellKindOf(cell) ==
  IF cell.kind = "custom"
  THEN IF "data" \in DOMAIN cell /\ "kind" \in DOMAIN cell.data
       THEN cell.data.kind ELSE ""
  ELSE cell.kind

\* the template with the Pandas styler css of the cell applied, when the
\* table has styles and the cell a css id
styledTemplate(cellTemplate, quiverCell, cssStyles) ==
  IF cssStyles # Undefined /\ quiverCell.cssId.t = "string"
     /\ quiverCell.cssId.v # ""
  THEN applyPandasStylerCss(cellTemplate, quiverCell.cssId.v, cssStyles)
  ELSE cellTemplate

\* the switch (cellKind) of fillCellTemplate
fillByKind(cellKind, cellTemplate, content, displayContent) ==
  CASE cellKind = "text" -> fillTextCell(cellTemplate, content, displayContent)
    [] cellKind = "number" ->
         fillNumberCell(cellTemplate, content, displayContent)
    [] cellKind = "boolean" -> fillBooleanCell(cellTemplate, content)
    [] cellKind = "bubble" -> fillListCell(cellTemplate, content)
    [] cellKind = "uri" -> fillUrlCell(cellTemplate, content)
    [] cellKind = "image" -> fillImageCell(cellTemplate, content)
    [] cellKind = "sparkline-cell" -> fillChartCell(cellTemplate, content)
    [] cellKind = "range-cell" -> fillProgressCell(cellTemplate, content)
    [] OTHER -> getErrorCell("Unsupported cell kind: " \o cellKind, "")

\* fillCellTemplate(cellTemplate, quiverCell, cssStyles)
fillCellTemplate(cellTemplate, quiverCell, cssStyles) ==
  IF cellKindOf(cellTemplate) = ""
  THEN getErrorCell("Unable to determine cell type.", "")
  ELSE fillByKind(cellKindOf(cellTemplate),
                  styledTemplate(cellTemplate, quiverCell, cssStyles),
                  quiverCell.content, getDisplayContent(quiverCell))

\* the switch of updateCell with a case for list cells as well
updateByKind_ListEditable(cellKind, cell, newValue, display) ==
  CASE cellKind = "text" ->
         Spread(fillTextCell(cell, newValue, display), [lastUpdated |-> "now"])
    [] cellKind = "number" ->
         Spread(fillNumberCell(cell, newValue, display),
                [lastUpdated |-> "now"])
    [] cellKind = "boolean" ->
         Spread(fillBooleanCell(cell, newValue), [lastUpdated |-> "now"])
    [] cellKind = "uri" ->
         Spread(fillUrlCell(cell, newValue), [lastUpdated |-> "now"])
    [] cellKind = "bubble" ->
         Spread(fillListCell(cell, newValue), [lastUpdated |-> "now"])
    [] OTHER -> getErrorCell("Cell cannot be edited: " \o cellKind, "")

\* the switch (cellKind) of updateCell; performance.now() is the token
\* "now"
updateByKind(cellKind, cell, newValue, display) ==
  CASE cellKind = "text" ->
         Spread(fillTextCell(cell, newValue, display), [lastUpdated |-> "now"])
    [] cellKind = "number" ->
         Spread(fillNumberCell(cell, newValue, display),
                [lastUpdated |-> "now"])
    [] cellKind = "boolean" ->
         Spread(fillBooleanCell(cell, newValue), [lastUpdated |-> "now"])
    [] cellKind = "uri" ->
         Spread(fillUrlCell(cell, newValue), [lastUpdated |-> "now"])
    [] OTHER -> getErrorCell("Cell cannot be edited: " \o cellKind, "")

\* updateCell(cell, newValue, newDisplayValue?)
updateCell(cell, newValue, newDisplayValue) ==
  IF cellKindOf(cell) = ""
  THEN getErrorCell("Unable to determine cell type.", "")
  ELSE updateByKind(cellKindOf(cell), cell, newValue,
                    IF notNullOrUndefined(newDisplayValue)
                    THEN newDisplayValue ELSE Str(String(newValue)))

-----------------------------------------------------------------------------
(* DataGrid/DataGridCells.tsx: the cell functions of the older data grid *)

\* determineColumnType(quiverType)
determineColumnType(quiverType) ==
  LET dataTypeName == QuiverGetTypeName(quiverType)
      name == Join(dataTypeName)
  IN IF dataTypeName = <<>> THEN "text"
     ELSE IF name \in {"bool"} THEN "text"
     ELSE IF name \in {"int64", "float64", "range"} THEN "number"
     ELSE IF startsWithList(dataTypeName) THEN "list"
     ELSE "text"

\* the if-chain of getCellTemplate of DataGridCells.tsx, one branch per
\* column type
DataGridCells_cellTemplateOf(type, readonly, style) ==
  CASE type = "text" ->
         [kind |-> "text", data |-> Str(""), displayData |-> Str(""),
          allowOverlay |-> TRUE, readonly |-> readonly, style |-> style]
    [] type = "boolean" ->
         [kind |-> "boolean", data |-> Bool(FALSE), showUnchecked |-> TRUE,
          allowEdit |-> readonly, allowOverlay |-> FALSE, style |-> style]
    [] type = "number" ->
         [kind |-> "number", data |-> Undefined, displayData |-> Str(""),
          readonly |-> readonly, allowOverlay |-> TRUE, style |-> style]
    [] type = "list" ->
         [kind |-> "bubble", data |-> Arr(<<>>), allowOverlay |-> TRUE,
          style |-> style]
    [] type = "url" ->
         [kind |-> "uri", data |-> Str(""), readonly |-> readonly,
          allowOverlay |-> TRUE, style |-> style]
    [] type = "image" ->
         [kind |-> "image", data |-> Arr(<<>>), displayData |-> Arr(<<>>),
          allowAdd |-> ~readonly, allowOverlay |-> TRUE, style |-> style]
    [] type = "line-chart" ->
         [kind |-> "custom", allowOverlay |-> FALSE, copyData |-> "[]",
          data |-> [kind |-> "sparkline-cell", values |-> <<>>,
                    displayValues |-> <<>>, graphKind |-> "line",
                    yAxis |-> <<0, Unit>>]]
    [] type = "bar-chart" ->
         [kind |-> "custom", allowOverlay |-> FALSE, copyData |-> "[]",
          data |-> [kind |-> "sparkline-cell", values |-> <<>>,
                    graphKind |-> "bar", yAxis |-> <<0, Unit>>]]
    [] type = "progress-chart" ->
         [kind |-> "custom", allowOverlay |-> FALSE, copyData |-> "",
          data |-> [kind |-> "range-cell", min |-> 0, max |-> Unit,
                    value |-> Num(0), step |-> 10, label |-> "0%",
                    measureLabel |-> "100%"]]

\* getCellTemplate(type, readonly, style = "normal") of DataGridCells.tsx
DataGridCells_getCellTemplate(type, readonly, style) ==
  IF type \in ColumnType
  THEN DataGridCells_cellTemplateOf(type, readonly, style)
  ELSE Thrown("Unsupported cell type: " \o type)

\* JSON.stringify(x) at the top level: undefined has no JSON text
jsonText(x) == IF x.t = "undefined" THEN Undefined ELSE jsonItem(x)

\* (Math.round(x * 100) / 100).toString() of the sparkline display values
roundedString(x) ==
  LET n == Number(x) IN IF n.t = "number" THEN NumberToString(n.v) ELSE "NaN"

\* cellData !== undefined && cellData !== null ? Number(cellData) : undefined
numberOrUndefined(cellData) ==
  IF notNullOrUndefined(cellData) THEN Number(cellData) ELSE Undefined

\* the if-chain over cellKind of fillCellTemplate of DataGridCells.tsx
DataGridCells_fillByKind(cellKind, styled, content, formattedContents) ==
  CASE cellKind = "text" ->
         Spread(styled,
           [data |-> IF typeof(content) = "string"
                        \/ ~notNullOrUndefined(content)
                     THEN content ELSE formattedContents,
            displayData |-> formattedContents])
    [] cellKind = "number" ->
         Spread(styled,
           [data |-> numberOrUndefined(IF content.t = "int32array"
                                       THEN first(content.v) ELSE content),
            displayData |-> formattedContents])
    [] cellKind = "boolean" -> Spread(styled, [data |-> content])
    [] cellKind = "bubble" ->
         Spread(styled,
           [data |-> IF notNullOrUndefined(content) THEN jsonItem(content)
                     ELSE Arr(<<>>)])
    [] cellKind = "image" ->
         Spread(styled,
           [data |-> IF notNullOrUndefined(content)
                     THEN Arr(<<Str(String(content))>>) ELSE Arr(<<>>),
            displayData |-> IF notNullOrUndefined(content)
                            THEN Arr(<<Str(String(content))>>)
                            ELSE Arr(<<>>)])
    [] cellKind = "uri" ->
         Spread(styled,
           [data |-> IF notNullOrUndefined(content)
                     THEN Str(String(content)) ELSE Str("")])
    [] cellKind = "sparkline-cell" ->
         IF content.t = "undefined"
         THEN Thrown("SyntaxError: JSON.parse(undefined)")
         ELSE IF jsonText(content).t # "array"
         THEN Thrown("TypeError: chartData.map is not a function")
         ELSE Spread(styled,
                [copyData |-> jsonNumbers(jsonText(content).v),
                 data |-> Spread(styled.data,
                   [values |-> jsonText(content).v,
                    displayValues |->
                      [i \in DOMAIN content.v |->
                         roundedString(jsonText(content).v[i])]])])
    [] cellKind = "range-cell" ->
         Spread(styled,
           [copyData |-> String(content),
            data |-> Spread(styled.data,
              [value |-> content,
               label |-> IF ~truthy(content) THEN "0%"
                         ELSE IF Number(content).t = "number"
                         THEN percentLabel(Number(content).v)
                         ELSE "NaN%"])])
    [] OTHER -> Thrown("Unsupported cell kind: " \o cellKind)

\* fillCellTemplate(cellTemplate, quiverCell, cssStyles) of DataGridCells.tsx
DataGridCells_fillCellTemplate(cellTemplate, quiverCell, cssStyles) ==
  IF cellTemplate.kind = "custom" /\ cellKindOf(cellTemplate) = ""
  THEN Thrown("Unable to determine cell type for custom cell.")
  ELSE DataGridCells_fillByKind(cellKindOf(cellTemplate),
         styledTemplate(cellTemplate, quiverCell, cssStyles),
         quiverCell.content, getDisplayContent(quiverCell))

-----------------------------------------------------------------------------
(* The cell functions of src/unnamed/part_000 (lines 778-1363): as those of *)
(* DataFrameCells.tsx, the fill functions taking the Quiver cell, except   *)
(* that fillCellTemplate throws for a custom cell without an inner kind.   *)

\* fillCellTemplate(cellTemplate, quiverCell, cssStyles) of part_000
Part000_fillCellTemplate(cellTemplate, quiverCell, cssStyles) ==
  IF cellTemplate.kind = "custom" /\ cellKindOf(cellTemplate) = ""
  THEN Thrown("Unable to determine cell type for custom cell.")
  ELSE IF cellTemplate.kind = ""
  THEN getErrorCell("Unsupported cell kind: ", "")
  ELSE fillCellTemplate(cellTemplate, quiverCell, cssStyles)

-----------------------------------------------------------------------------
(* The Quiver tables (src/lib/Quiver) the component is given *)

QuiverType(name) == [pandas_type |-> <<name>>, numpy_type |-> <<name>>]

\* a table of one index column and the data columns a (text) and b (number)
TableA ==
  [empty |-> FALSE,
   indexTypes |-> <<QuiverType("range")>>,
   dataTypes |-> <<QuiverType("unicode"), QuiverType("int64")>>,
   columns |-> <<"a", "b">>,
   cells |-> << <<Num(0), Str("x"), Num(2 * Unit)>>,
                <<Num(Unit), Str("y"), Num(Unit)>> >>,
   cssStyles |-> Undefined]

\* a table of the same shape and other contents
TableB ==
  [empty |-> FALSE,
   indexTypes |-> <<QuiverType("range")>>,
   dataTypes |-> <<QuiverType("unicode"), QuiverType("int64")>>,
   columns |-> <<"a", "b">>,
   cells |-> << <<Num(0), Str("p"), Num(Unit)>>,
                <<Num(Unit), Str("q"), Num(3 * Unit)>> >>,
   cssStyles |-> Undefined]

\* the table without columns and rows
TableEmpty ==
  [empty |-> TRUE, indexTypes |-> <<>>, dataTypes |-> <<>>,
   columns |-> <<>>, cells |-> <<>>, cssStyles |-> Undefined]

SourceTables == [A |-> TableA, B |-> TableB, E |-> TableEmpty]
TableNames == DOMAIN SourceTables

\* Quiver.isEmpty()
isEmpty(table) == table.empty

\* data.types?.index?.length ?? 0 and data.columns?.[0]?.length ?? 0
numIndicesOf(table) == Len(table.indexTypes)
numColumnsOf(table) == Len(table.columns)

\* data.dimensions.rows - 1: the rows below the header row
dataRowsOf(table) == Len(table.cells)

\* Quiver.getCell(rowIndex, columnIndex), the header being row 0: throws
\* for a cell outside the table
QuiverGetCell(table, rowIndex, columnIndex) ==
  IF rowIndex < 1 \/ rowIndex > dataRowsOf(table) \/ columnIndex < 0
     \/ columnIndex >= numIndicesOf(table) + numColumnsOf(table)
  THEN Thrown("Row or column index is out of range.")
  ELSE [content |-> table.cells[rowIndex][columnIndex + 1],
        displayContent |-> Undefined, cssId |-> Undefined]

-----------------------------------------------------------------------------
(* DataFrame/DataFrame.tsx *)

ROW_HEIGHT == 35
MIN_COLUMN_WIDTH == 35
MAX_COLUMN_WIDTH == 600
MIN_TABLE_WIDTH == MIN_COLUMN_WIDTH + 3
MIN_TABLE_HEIGHT == 2 * ROW_HEIGHT + 3

Min(a, b) == IF a < b THEN a ELSE b
Max(a, b) == IF a > b THEN a ELSE b

\* the key a Map holds for a column index (a number) and for a title (a
\* string); Object.entries yields string keys only
IndexKey(i) == [t |-> "number", v |-> i]
TitleKey(s) == [t |-> "string", v |-> s]

\* applyColumnConfig(column, columnsConfig): the column, or Null when hidden
applyColumnConfig(column, columnsConfig) ==
  LET found == IF IndexKey(column.columnIndex) \in DOMAIN columnsConfig
               THEN IndexKey(column.columnIndex)
               ELSE IF TitleKey(column.title) \in DOMAIN columnsConfig
               THEN TitleKey(column.title)
               ELSE Undefined
      columnConfig == columnsConfig[found]
      has(f) == f \in DOMAIN columnConfig
  IN IF found = Undefined THEN column
     ELSE IF has("hide") /\ columnConfig.hide = TRUE THEN Null
     ELSE Spread(column,
            (IF has("title") THEN [title |-> columnConfig.title] ELSE <<>>)
            @@ (IF has("width")
                THEN [width |-> Max(Min(columnConfig.width, MIN_COLUMN_WIDTH),
                                    MAX_COLUMN_WIDTH)]
                ELSE <<>>)
            @@ (IF has("type")
                THEN [columnType |-> getColumnTypeFromConfig(columnConfig.type)]
                ELSE <<>>)
            @@ (IF has("editable")
                THEN [isEditable |-> columnConfig.editable] ELSE <<>>))

\* the column getColumns builds for index i of the index or data columns
indexColumn(table, i) ==
  [id |-> "index-" \o ToString(i), title |-> "", hasMenu |-> FALSE,
   columnType |-> getColumnTypeFromQuiver(table.indexTypes[i + 1]),
   quiverType |-> table.indexTypes[i + 1], columnIndex |-> i,
   isEditable |-> FALSE, isHidden |-> FALSE, isIndex |-> TRUE]
dataColumn(table, i) ==
  [id |-> "column-" \o table.columns[i + 1] \o "-" \o ToString(i),
   title |-> table.columns[i + 1], hasMenu |-> FALSE,
   columnType |-> getColumnTypeFromQuiver(table.dataTypes[i + 1]),
   quiverType |-> table.dataTypes[i + 1],
   columnIndex |-> i + numIndicesOf(table),
   isEditable |-> FALSE, isHidden |-> FALSE, isIndex |-> FALSE]

RECURSIVE pushVisible_Renumbered(_, _, _)
\* the for loops of getColumns giving each pushed column its position among
\* the visible columns as its columnIndex
pushVisible_Renumbered(candidates, columnsConfig, columns) ==
  IF candidates = <<>> THEN columns
  ELSE LET updatedColumn == applyColumnConfig(Head(candidates), columnsConfig)
       IN pushVisible_Renumbered(Tail(candidates), columnsConfig,
            IF updatedColumn = Null THEN columns
            ELSE Append(columns,
                        Spread(updatedColumn,
                               [columnIndex |-> Len(columns)])))

RECURSIVE pushVisible(_, _, _)
\* the two for loops of getColumns: each column goes through
\* applyColumnConfig and is pushed unless it is hidden
pushVisible(candidates, columnsConfig, columns) ==
  IF candidates = <<>> THEN columns
  ELSE LET updatedColumn == applyColumnConfig(Head(candidates), columnsConfig)
       IN pushVisible(Tail(candidates), columnsConfig,
                      IF updatedColumn = Null THEN columns
                      ELSE Append(columns, updatedColumn))

\* getColumns without its branch for an empty table
getColumns_NoEmptyIndex(table, columnsConfig) ==
  pushVisible(
    [i \in 1..numIndicesOf(table) |-> indexColumn(table, i - 1)]
    \o [i \in 1..numColumnsOf(table) |-> dataColumn(table, i - 1)],
    columnsConfig, <<>>)

\* getColumns(data, columnsConfig)
getColumns(table, columnsConfig) ==
  IF isEmpty(table)
  THEN << [id |-> "empty-index", title |-> "", hasMenu |-> FALSE,
           columnType |-> "text", columnIndex |-> 0, isEditable |-> FALSE,
           isIndex |-> TRUE] >>
  ELSE pushVisible(
         [i \in 1..numIndicesOf(table) |-> indexColumn(table, i - 1)]
         \o [i \in 1..numColumnsOf(table) |-> dataColumn(table, i - 1)],
         columnsConfig, <<>>)

\* class EditingCache: get(col, row), Undefined when there is no entry
EditingCache_get(cache, col, row) ==
  IF col \notin DOMAIN cache THEN Undefined
  ELSE IF row \notin DOMAIN cache[col] THEN Undefined
  ELSE cache[col][row]

\* EditingCache.set with the row map of the column made anew on every call
EditingCache_set_FreshColumn(cache, col, row, value) ==
  (col :> (row :> value)) @@ cache

\* class EditingCache: set(col, row, value)
EditingCache_set(cache, col, row, value) ==
  LET withCol == IF col \notin DOMAIN cache THEN (col :> <<>>) @@ cache
                 ELSE cache
  IN [withCol EXCEPT ![col] = (row :> value) @@ withCol[col]]

\* updateSortingHeader that prefixes the title of the column held in the
\* sort configuration, which is the clicked column with the title it showed
updateSortingHeader_SortColumnTitle(columns, sort) ==
  IF sort = Undefined THEN columns
  ELSE [i \in DOMAIN columns |->
          IF columns[i].id = sort.column.id
          THEN Spread(columns[i],
                 [title |-> IF sort.direction = "asc"
                            THEN "^ " \o sort.column.title
                            ELSE "v " \o sort.column.title])
          ELSE columns[i]]

\* updateSortingHeader(columns, sort)
updateSortingHeader(columns, sort) ==
  IF sort = Undefined THEN columns
  ELSE [i \in DOMAIN columns |->
          IF columns[i].id = sort.column.id
          THEN Spread(columns[i],
                 [title |-> IF sort.direction = "asc"
                            THEN "^ " \o columns[i].title
                            ELSE "v " \o columns[i].title])
          ELSE columns[i]]

\* columns.map(column => ...) of useDataLoader: the widths of the
\* columnSizes state applied
applyColumnSizes(columns, sizes) ==
  [i \in DOMAIN columns |->
     IF columns[i].id \in DOMAIN sizes
     THEN Spread(columns[i], [width |-> sizes[columns[i].id]])
     ELSE columns[i]]

\* the columns of useDataLoader
loaderColumns(table, columnsConfig, sizes) ==
  applyColumnSizes(getColumns(table, columnsConfig), sizes)

\* const numRows = data.isEmpty() ? 1 : data.dimensions.rows - 1
numRowsOf(table) == IF isEmpty(table) THEN 1 ELSE dataRowsOf(table)

\* x, or the fallback when evaluating x threw: try { x } catch { fallback }
catch(x, fallback) == IF IsThrown(x) THEN fallback ELSE x

\* the try block of getCellContent: the Quiver cell read and filled
tryFill(cellTemplate, quiverCell, cssStyles) ==
  IF IsThrown(quiverCell) THEN quiverCell
  ELSE fillCellTemplate(cellTemplate, quiverCell, cssStyles)

\* getCellContent below its cache lookup, the column's template built: the
\* template for a row outside the table, else the filled cell, else (the
\* catch) the template
fromTemplate(cellTemplate, table, column, numRows, row) ==
  IF IsThrown(cellTemplate) THEN cellTemplate
  ELSE IF row > numRows - 1 THEN cellTemplate
  ELSE catch(tryFill(cellTemplate,
                     QuiverGetCell(table, row + 1, column.columnIndex),
                     table.cssStyles),
             cellTemplate)

\* getCellContent below its cache lookup: the cell built from the source
sourceCell(table, column, numRows, row) ==
  fromTemplate(getCellTemplate(column.columnType, ~column.isEditable,
                               column.isIndex),
               table, column, numRows, row)

\* if (notNullOrUndefined(cell)) return cell
cachedOr(cell, other) == IF cell # Undefined THEN cell ELSE other

\* getCellContent of useDataLoader without the lookup in the editing cache
getCellContent_NoCache(table, columns, numRows, cache, col, row) ==
  IF isEmpty(table)
  THEN Spread(getCellTemplate("text", TRUE, TRUE),
              [displayData |-> Str("empty")])
  ELSE IF col > Len(columns) - 1 THEN getCellTemplate("text", TRUE, FALSE)
  ELSE sourceCell(table, columns[col + 1], numRows, row)

\* getCellContent([col, row]) of useDataLoader, for the table, columns and
\* numRows the callback closes over and the cache of the ref
getCellContent(table, columns, numRows, cache, col, row) ==
  IF isEmpty(table)
  THEN Spread(getCellTemplate("text", TRUE, TRUE),
              [displayData |-> Str("empty")])
  ELSE IF col > Len(columns) - 1 THEN getCellTemplate("text", TRUE, FALSE)
  ELSE cachedOr(EditingCache_get(cache, col, row),
                sourceCell(table, columns[col + 1], numRows, row))

\* useColumnSort of glide-data-grid-source: the order of the strings of the
\* model, and the sort key of a cell
stringRank(s) ==
  CASE s = "" -> 0
    [] s = "p" -> 1
    [] s = "q" -> 2
    [] s = "x" -> 3
    [] s = "y" -> 4
    [] s = "z" -> 5
    [] OTHER -> 6
sortKey(cell) ==
  IF "data" \notin DOMAIN cell \/ "t" \notin DOMAIN cell.data THEN 0
  ELSE IF cell.data.t = "number" THEN cell.data.v
  ELSE IF cell.data.t = "string" THEN stringRank(cell.data.v)
  ELSE 0

RECURSIVE insertRow(_, _, _)
\* row r put into the ascending order `sorted`, after the rows whose key is
\* not greater (the sort is stable)
insertRow(sorted, r, key) ==
  IF sorted = <<>> THEN <<r>>
  ELSE IF key[r] < key[Head(sorted)] THEN <<r>> \o sorted
  ELSE <<Head(sorted)>> \o insertRow(Tail(sorted), r, key)
RECURSIVE sortRows(_, _, _)
sortRows(r, rows, key) ==
  IF r >= rows THEN <<>>
  ELSE insertRow(sortRows(r + 1, rows, key), r, key)
reverse(s) == [i \in DOMAIN s |-> s[Len(s) + 1 - i]]

\* result.reverse() for a descending sort
inDirection(direction, asc) ==
  [t |-> "map", v |-> IF direction = "desc" THEN reverse(asc) ELSE asc]

\* the sort map of useColumnSort({columns, getCellContent, rows, sort}): the
\* original row shown at each position, Undefined without a sort column
sortMapOf(table, columns, numRows, cache, sort) ==
  IF sort = Undefined
     \/ ~\E i \in DOMAIN columns : columns[i].id = sort.column.id
  THEN Undefined
  ELSE inDirection(sort.direction,
         sortRows(0, numRows,
           [r \in 0..(numRows - 1) |->
              sortKey(getCellContent(table, columns, numRows, cache,
                        (CHOOSE i \in DOMAIN columns :
                           columns[i].id = sort.column.id) - 1, r))]))

\* getOriginalIndex(row) of useColumnSort
getOriginalIndex(sortMap, row) ==
  IF sortMap = Undefined THEN row ELSE sortMap.v[row + 1]

\* isEditableGridCell of glide-data-grid
isEditableGridCell(cell) ==
  cell.kind \notin {"loading", "bubble", "row-id", "protected", "drilldown"}

\* what useDataLoader returns and its callbacks close over, the columns
\* computed
loaderOf(dataName, table, columns, sizes, sort, cache) ==
  [data |-> dataName, columns |-> columns, numRows |-> numRowsOf(table),
   numIndices |-> numIndicesOf(table), sort |-> sort,
   sortMap |-> sortMapOf(table, columns, numRowsOf(table), cache, sort),
   columnSizes |-> sizes,
   updatedColumns |-> updateSortingHeader(columns, sort)]

\* one render of DataFrame: what useDataLoader computes from the props and
\* the state, and what the callbacks of that render close over
renderOf(dataName, tables, columnsConfig, sizes, sort, cache) ==
  loaderOf(dataName, tables[dataName],
           loaderColumns(tables[dataName], columnsConfig, sizes), sizes,
           sort, cache)

\* getCellContent and getCellContentSorted of the last render
readCell(col, row) ==
  getCellContent(quiver[rendered.data], rendered.columns, rendered.numRows,
                 cachedContent, col, row)
readCellSorted(col, row) ==
  readCell(col, getOriginalIndex(rendered.sortMap, row))

-----------------------------------------------------------------------------
(* The DataGrid component of src/unnamed/part_000 (lines 340-776), which   *)
(* takes its cell functions from DataGridCells.tsx.  A column's            *)
(* getTemplate closure is held as the column type and style it closes over.*)

\* const columnType = columnConfig.type ? columnConfig.type.toLowerCase()
\*                                      : determineColumnType(quiverType)
Part000_columnType(columnConfig, quiverType) ==
  IF "type" \in DOMAIN columnConfig /\ columnConfig.type.t = "string"
     /\ columnConfig.type.v # <<>>
  THEN Join(toLowerCase(columnConfig.type.v))
  ELSE determineColumnType(quiverType)

\* the column the second for loop of getColumns pushes for data column i
Part000_dataColumn(table, i, columnConfig) ==
  Spread([id |-> "column-" \o table.columns[i + 1] \o "-" \o ToString(i),
          title |-> IF "title" \in DOMAIN columnConfig
                       /\ columnConfig.title # ""
                    THEN columnConfig.title ELSE table.columns[i + 1],
          hasMenu |-> FALSE,
          columnType |->
            Part000_columnType(columnConfig, table.dataTypes[i + 1]),
          style |-> "normal"],
         IF "width" \in DOMAIN columnConfig /\ columnConfig.width # 0
         THEN [width |-> columnConfig.width] ELSE <<>>)

\* getColumns(element) of part_000, element.widget.columns parsed
Part000_getColumns(table, columnsConfig) ==
  IF isEmpty(table)
  THEN << [id |-> "empty-index", title |-> "", hasMenu |-> FALSE,
           columnType |-> "text", style |-> "faded"] >>
  ELSE [i \in 1..numIndicesOf(table) |->
          [id |-> "index-" \o ToString(i - 1), title |-> "",
           hasMenu |-> FALSE,
           columnType |-> determineColumnType(table.indexTypes[i]),
           style |-> "faded"]]
       \o [i \in 1..numColumnsOf(table) |->
             Part000_dataColumn(table, i - 1,
               IF TitleKey(table.columns[i]) \in DOMAIN columnsConfig
               THEN columnsConfig[TitleKey(table.columns[i])] ELSE <<>>)]

\* column.getTemplate()
Part000_getTemplate(column) ==
  DataGridCells_getCellTemplate(column.columnType, TRUE, column.style)

\* the try block of getCellContent of part_000
Part000_tryFill(cellTemplate, quiverCell, cssStyles) ==
  IF IsThrown(quiverCell) THEN quiverCell
  ELSE DataGridCells_fillCellTemplate(cellTemplate, quiverCell, cssStyles)

\* getCellContent of part_000 from `const cellTemplate =` on: a throwing
\* getTemplate() is outside the try and passes on
Part000_fromTemplate(cellTemplate, table, numRows, col, row) ==
  IF IsThrown(cellTemplate) THEN cellTemplate
  ELSE IF row > numRows - 1 THEN cellTemplate
  ELSE catch(Part000_tryFill(cellTemplate, QuiverGetCell(table, row + 1, col),
                             table.cssStyles),
             cellTemplate)

\* getCellContent([col, row]) of useDataLoader of part_000
Part000_getCellContent(table, columns, numRows, col, row) ==
  IF isEmpty(table)
  THEN Spread(DataGridCells_getCellTemplate("text", TRUE, "faded"),
              [displayData |-> Str("empty")])
  ELSE IF col > Len(columns) - 1
  THEN DataGridCells_getCellTemplate("text", TRUE, "normal")
  ELSE Part000_fromTemplate(Part000_getTemplate(columns[col + 1]), table,
                            numRows, col, row)

-----------------------------------------------------------------------------
(* The DataFrame component as a state machine: props, state, the editing  *)
(* cache and the closures of the last render.                             *)

MaxSteps == 3

\* element.columns: the configurations the component is mounted with
ColumnConfigs ==
  { <<>>,
    (TitleKey("a") :> [editable |-> TRUE])
      @@ (TitleKey("b") :> [editable |-> TRUE,
                            type |-> TypeString(<<"Number">>)]),
    (TitleKey("a") :> [hide |-> TRUE])
      @@ (TitleKey("b") :> [editable |-> TRUE, title |-> "B",
                            width |-> 100]) }

\* the cells glide-data-grid hands to onCellEdited
EditedCells ==
  { [kind |-> "text", data |-> Str("z"), allowOverlay |-> TRUE],
    [kind |-> "number", data |-> Num(3 * Unit), allowOverlay |-> TRUE],
    [kind |-> "bubble", data |-> Arr(<<>>), allowOverlay |-> TRUE] }

\* the sizes a column is dragged to
NewSizes == {50, 120}

Init ==
  /\ dataProp \in {"A", "E"}
  /\ quiver = SourceTables
  /\ colsCfg \in ColumnConfigs
  /\ cachedContent = <<>>
  /\ sortState = Undefined
  /\ columnSizes = <<>>
  /\ rendered = renderOf(dataProp, quiver, colsCfg, columnSizes, sortState,
                         cachedContent)
  /\ steps = 0
  /\ pc = "idle"
  /\ call = <<>>
  /\ ret = <<>>

\* the body of onCellEdited, currentCell read: the cache after the call
editedCache(cache, currentCell, col, original, newVal) ==
  IF isEditableGridCell(newVal) /\ isEditableGridCell(currentCell)
     /\ typeof(newVal.data) \in {"string", "number", "boolean"}
  THEN EditingCache_set(cache, col, original,
                        updateCell(currentCell, newVal.data, Undefined))
  ELSE cache

\* onCellEdited that also writes the new value into the Quiver table
onCellEdited_WritesSource(col, row, newVal) ==
  /\ steps < MaxSteps
  /\ col \in 0..(Len(rendered.columns) - 1)
  /\ row \in 0..(rendered.numRows - 1)
  /\ steps' = steps + 1
  /\ cachedContent' =
       editedCache(cachedContent, readCellSorted(col, row), col,
                   getOriginalIndex(rendered.sortMap, row), newVal)
  /\ quiver' =
       IF isEmpty(quiver[rendered.data]) \/ cachedContent' = cachedContent
       THEN quiver
       ELSE [quiver EXCEPT
               ![rendered.data].cells
                  [getOriginalIndex(rendered.sortMap, row) + 1]
                  [rendered.columns[col + 1].columnIndex + 1] = newVal.data]
  /\ UNCHANGED <<dataProp, colsCfg, sortState, columnSizes, rendered>>
  /\ UNCHANGED callVars

\* onCellEdited that stores the edit under the displayed row
onCellEdited_DisplayedRow(col, row, newVal) ==
  /\ steps < MaxSteps
  /\ col \in 0..(Len(rendered.columns) - 1)
  /\ row \in 0..(rendered.numRows - 1)
  /\ steps' = steps + 1
  /\ cachedContent' =
       editedCache(cachedContent, readCellSorted(col, row), col, row, newVal)
  /\ UNCHANGED <<dataProp, quiver, colsCfg, sortState, columnSizes,
                 rendered>>
  /\ UNCHANGED callVars

\* onCellEdited([col, row], newVal) of useDataLoader
onCellEdited(col, row, newVal) ==
  /\ steps < MaxSteps
  /\ col \in 0..(Len(rendered.columns) - 1)
  /\ row \in 0..(rendered.numRows - 1)
  /\ steps' = steps + 1
  /\ cachedContent' =
       editedCache(cachedContent, readCellSorted(col, row), col,
                   getOriginalIndex(rendered.sortMap, row), newVal)
  /\ UNCHANGED <<dataProp, quiver, colsCfg, sortState, columnSizes,
                 rendered>>
  /\ UNCHANGED callVars

\* the sort onHeaderClick of DataFrame sets, for the sort its closure holds
\* and the column clicked
sortAfterClick(sort, clickedColumn) ==
  IF sort # Undefined /\ sort.column.id = clickedColumn.id
  THEN IF sort.direction = "asc"
       THEN [column |-> clickedColumn, direction |-> "desc",
             mode |-> getColumnSortMode(clickedColumn.columnType)]
       ELSE Undefined
  ELSE [column |-> clickedColumn, direction |-> "asc",
        mode |-> getColumnSortMode(clickedColumn.columnType)]

\* the sort onHeaderClick of the first DataGrid of part_000 sets
Part000_sortAfterClick(sort, clickedColumn) ==
  [column |-> clickedColumn,
   direction |-> IF sort # Undefined /\ sort.column.id = clickedColumn.id
                    /\ sort.direction = "asc"
                 THEN "desc" ELSE "asc",
   mode |-> "smart"]

\* onHeaderClick(index) of DataFrame
onHeaderClick(index) ==
  LET clickedColumn == rendered.updatedColumns[index + 1]
      sort == rendered.sort
  IN /\ steps < MaxSteps
     /\ index \in 0..(Len(rendered.updatedColumns) - 1)
     /\ steps' = steps + 1
     /\ sortState' = sortAfterClick(sort, clickedColumn)
     /\ UNCHANGED <<dataProp, quiver, colsCfg, cachedContent, columnSizes,
                    rendered>>
     /\ UNCHANGED callVars

\* onColumnResize(column, newSize) of useDataLoader, for the column at
\* position index
onColumnResize(index, newSize) ==
  LET column == rendered.updatedColumns[index + 1]
  IN /\ steps < MaxSteps
     /\ index \in 0..(Len(rendered.updatedColumns) - 1)
     /\ steps' = steps + 1
     /\ columnSizes' = IF column.id # ""
                       THEN (column.id :> newSize) @@ rendered.columnSizes
                       ELSE columnSizes
     /\ UNCHANGED <<dataProp, quiver, colsCfg, cachedContent, sortState,
                    rendered>>
     /\ UNCHANGED callVars

\* React renders DataFrame again after a state update: the callbacks are
\* made anew over the current props and state
Render ==
  /\ rendered' = renderOf(dataProp, quiver, colsCfg, columnSizes, sortState,
                          cachedContent)
  /\ rendered' # rendered
  /\ UNCHANGED <<dataProp, quiver, colsCfg, cachedContent, sortState,
                 columnSizes, steps>>
  /\ UNCHANGED callVars

\* the parent passes another table as the data prop, which renders the
\* component with it
NewData(name) ==
  /\ steps < MaxSteps
  /\ name # dataProp
  /\ steps' = steps + 1
  /\ dataProp' = name
  /\ rendered' = renderOf(name, quiver, colsCfg, columnSizes, sortState,
                          cachedContent)
  /\ UNCHANGED <<quiver, colsCfg, cachedContent, sortState, columnSizes>>
  /\ UNCHANGED callVars

Next ==
  \/ \E col \in 0..2, row \in 0..1, newVal \in EditedCells :
       onCellEdited(col, row, newVal)
  \/ \E index \in 0..2 : onHeaderClick(index)
  \/ \E index \in 0..2, newSize \in NewSizes : onColumnResize(index, newSize)
  \/ \E name \in TableNames : NewData(name)
  \/ Render

Spec == Init /\ [][Next]_vars

-----------------------------------------------------------------------------
(* The cell functions called on their own: the arguments of one call are   *)
(* drawn in the initial state, the call runs every implementation of the  *)
(* function and records what each returned.                               *)

MaxArrayLen == 2

\* arrays of at most n elements of the set elems
RECURSIVE ArraysUpTo(_, _)
ArraysUpTo(n, elems) ==
  IF n = 0 THEN {<<>>}
  ELSE ArraysUpTo(n - 1, elems)
       \cup {Append(a, e) : a \in ArraysUpTo(n - 1, elems), e \in elems}

\* the raw values a Quiver cell holds
ScalarContents ==
  {Null, Undefined, NaN, Bool(TRUE), Bool(FALSE), Num(0), Num(50),
   Num(Unit), Num(150), Num(0 - 50), Str(""), Str("abc"), Str("0.5")}
ArrayContents ==
  {Arr(a) : a \in ArraysUpTo(MaxArrayLen,
                             {Num(50), Num(2 * Unit), Str("abc")})}
Contents == ScalarContents \cup ArrayContents

\* the raw values a chart column holds: scalars, arrays of numbers and of
\* other values, and an Arrow Vector
ChartContents ==
  ScalarContents
  \cup {Arr(a) : a \in ArraysUpTo(MaxArrayLen,
           {Num(0), Num(50), Num(2 * Unit), Num(0 - Unit), Str("abc")})}
  \cup {[t |-> "vector", v |-> <<Num(50), Num(2 * Unit)>>]}

\* the raw values a number column holds: scalars, arrays and Int32Arrays
NumberContents ==
  Contents
  \cup {[t |-> "int32array", v |-> a] :
          a \in ArraysUpTo(MaxArrayLen, {Num(0), Num(2 * Unit)})}

(***************************************************************************)
(* PlotlyChart/CustomTheme.tsx.  A JavaScript object is [t |-> "object",   *)
(* v |-> its fields]; a function that is handed objects yields, besides    *)
(* its result, the objects as they are once it has returned.               *)
(***************************************************************************)
Obj(fields) == [t |-> "object", v |-> fields]

\* lodash assign(object, source): copies the fields of source onto object
\* itself and returns object; this is object once the call has returned
assign(object, source) == Obj(Spread(object.v, source.v))

\* lodash merge({}, object, source): a new object with the fields of object
\* and then of source merged in recursively, an undefined source field
\* leaving a field that is there
RECURSIVE merge(_, _)
merge(object, source) ==
  Obj([k \in DOMAIN object.v \cup DOMAIN source.v |->
         IF k \notin DOMAIN source.v THEN object.v[k]
         ELSE IF k \notin DOMAIN object.v THEN source.v[k]
         ELSE IF source.v[k].t = "undefined" THEN object.v[k]
         ELSE IF object.v[k].t = "object" /\ source.v[k].t = "object"
         THEN merge(object.v[k], source.v[k])
         ELSE source.v[k]])

\* const themeFonts = {...}
themeFonts(theme) ==
  [labelFont |-> theme.v.genericFonts.v.bodyFont,
   titleFont |-> theme.v.genericFonts.v.bodyFont,
   labelFontSize |-> theme.v.fontSizes.v.twoSmPx,
   titleFontSize |-> theme.v.fontSizes.v.twoSmPx]

\* applyStreamlitThemeData(data, theme)
applyStreamlitThemeData(data, theme) ==
  LET streamlitTheme == Obj([autocolorscale |-> Bool(TRUE)])
  IN IF ~truthy(data)
     THEN [result |-> streamlitTheme, data |-> data, theme |-> theme]
     ELSE [result |-> assign(data, streamlitTheme),
           data |-> assign(data, streamlitTheme), theme |-> theme]

\* applyStreamlitThemeLayout(layout, theme); of the long literal the model
\* keeps the first entries and the flat ones, the others being built from
\* the theme in the same way
applyStreamlitThemeLayout(layout, theme) ==
  LET colors == theme.v.colors.v
      streamlitTheme ==
        Obj([background |-> colors.bgColor,
             axis |-> Obj(Spread([labelColor |-> colors.bodyText,
                                  titleColor |-> colors.bodyText,
                                  gridColor |-> colors.fadedText10],
                                 themeFonts(theme))),
             header |-> Obj([labelColor |-> colors.bodyText]),
             view |-> Obj([continuousHeight |-> Num(350 * Unit),
                           continuousWidth |-> Num(400 * Unit)]),
             font |-> Obj([family |-> theme.v.genericFonts.v.bodyFont]),
             paper_bgcolor |-> colors.bgColor,
             plot_bgcolor |-> colors.bgColor,
             autosize |-> Bool(TRUE)])
  IN IF ~truthy(layout)
     THEN [result |-> streamlitTheme, layout |-> layout, theme |-> theme]
     ELSE [result |-> assign(layout, streamlitTheme),
           layout |-> assign(layout, streamlitTheme), theme |-> theme]

\* applyThemeDefaults(config, theme)
applyThemeDefaults(config, theme) ==
  LET colors == theme.v.colors.v
      themeDefaults ==
        Obj([background |-> colors.bgColor,
             axis |-> Obj(Spread([labelColor |-> colors.bodyText,
                                  titleColor |-> colors.bodyText,
                                  gridColor |-> colors.fadedText10],
                                 themeFonts(theme))),
             legend |-> Obj(Spread([labelColor |-> colors.bodyText,
                                    titleColor |-> colors.bodyText],
                                   themeFonts(theme))),
             title |-> Obj(Spread([color |-> colors.bodyText,
                                   subtitleColor |-> colors.bodyText],
                                  themeFonts(theme))),
             header |-> Obj([labelColor |-> colors.bodyText]),
             view |-> Obj([continuousHeight |-> Num(350 * Unit),
                           continuousWidth |-> Num(400 * Unit)])])
  IN [result |-> IF ~truthy(config) THEN themeDefaults
                 ELSE merge(themeDefaults, config),
      config |-> config, theme |-> theme]

\* the themes: a light and a dark one
Themes ==
  {Obj([colors |-> Obj([bgColor |-> Str(c[1]), bodyText |-> Str(c[2]),
                        fadedText10 |-> Str(c[3])]),
        genericFonts |-> Obj([bodyFont |-> Str("Source Sans Pro")]),
        fontSizes |-> Obj([twoSmPx |-> Num(12 * Unit)])]) :
     c \in {<<"#ffffff", "#31333f", "#31333f1a">>,
            <<"#0e1117", "#fafafa", "#fafafa1a">>}}

\* the data, layout and config objects a chart passes: none, or an object
\* with fields of its own, some of them fields of the theme as well
PlotlyObjects ==
  {Undefined, Null,
   Obj([type |-> Str("bar")]),
   Obj([autocolorscale |-> Bool(FALSE), background |-> Str("#ff0000")]),
   Obj([background |-> Undefined,
        axis |-> Obj([labelColor |-> Str("#ff0000")])])}

\* the height, minHeight and maxHeight DataFrame gives its container, in
\* pixels, for the height of the element (0 or undefined: none configured)
DataFrame_height(numRows, propHeight) ==
  LET maxHeight == Max((numRows + 1) * ROW_HEIGHT + 3, MIN_TABLE_HEIGHT)
      height == Min(maxHeight, 400)
  IN IF truthy(propHeight)
     THEN [height |-> Max(propHeight.v \div Unit, MIN_TABLE_HEIGHT),
           minHeight |-> MIN_TABLE_HEIGHT,
           maxHeight |-> Max(propHeight.v \div Unit, maxHeight)]
     ELSE [height |-> height, minHeight |-> MIN_TABLE_HEIGHT,
           maxHeight |-> maxHeight]

\* the height and minHeight the first DataGrid of part_000 gives its
\* container, which gets no maxHeight
Part000_height(numRows, propHeight) ==
  [height |-> IF truthy(propHeight) THEN propHeight.v \div Unit
              ELSE Min((numRows + 1) * ROW_HEIGHT + 3, 400),
   minHeight |-> 2 * ROW_HEIGHT + 3]

\* the row counts of a table and the heights an element configures
MaxRows == 12
PropHeights ==
  {Undefined, Num(0), Num(50 * Unit), Num(MIN_TABLE_HEIGHT * Unit),
   Num(150 * Unit), Num(5000 * Unit)}

\* new Map(Object.entries(JSON.parse(element.columns))): every key of the
\* Map is a string, the key of the JSON object
columnsConfigOf(json) ==
  [key \in {TitleKey(k) : k \in DOMAIN json} |-> json[key.v]]

\* element.columns parsed: configurations keyed by the index of column a
\* ("1") or of column b ("2"), by a title, by both, and configured widths
JsonConfigs ==
  {("1" :> [title |-> "ByIndex"]),
   ("a" :> [title |-> "ByTitle"]),
   ("1" :> [title |-> "ByIndex"]) @@ ("a" :> [title |-> "ByTitle"]),
   ("2" :> [hide |-> TRUE]),
   ("b" :> [editable |-> TRUE, type |-> TypeString(<<"Text">>)])}
  \cup {("a" :> [width |-> w]) : w \in {10, 35, 100, 600, 700}}

\* a custom cell without an inner kind and one of an unknown inner kind
CustomNoKind ==
  [kind |-> "custom", allowOverlay |-> FALSE, copyData |-> "",
   data |-> [values |-> <<>>]]
CustomUnknownKind ==
  [kind |-> "custom", allowOverlay |-> FALSE, copyData |-> "",
   data |-> [kind |-> "star-cell"]]

\* the column types a caller passes: the enum and values outside it
TypeValues == ColumnType \cup {"foo", "Text", ""}

\* the type strings of a column configuration
ConfigTypes ==
  {Undefined, TypeString(<<>>), TypeString(<<"text">>),
   TypeString(<<"TEXT">>), TypeString(<<" ", "Number", " ">>),
   TypeString(<<"BOOLEAN">>), TypeString(<<"list">>), TypeString(<<"url">>),
   TypeString(<<"image">>), TypeString(<<"Bar-Chart">>),
   TypeString(<<"line-chart">>), TypeString(<<"\t", "Progress-Chart">>),
   TypeString(<<"FOO">>), TypeString(<<"int64">>)}

\* the declared types of a Quiver column
QuiverTypes ==
  {QuiverType(n) : n \in {"unicode", "bool", "Bool", "int64", "Int64",
                          "float64", "range", "list[int64]", "date",
                          "datetime", "datetimetz", "categorical"}}
  \cup {[pandas_type |-> <<"object">>, numpy_type |-> <<"list[unicode]">>],
        [pandas_type |-> <<>>, numpy_type |-> <<>>],
        [pandas_type |-> <<" ", "int64">>, numpy_type |-> <<"int64">>]}

\* the Quiver cell of a raw value, without styler information
QuiverCellOf(content) ==
  [content |-> content, displayContent |-> Undefined, cssId |-> Undefined]

\* the column configuration that gives data column b the type string
ConfigOfType(typeName) ==
  IF typeName = Undefined THEN <<>>
  ELSE (TitleKey("b") :> [type |-> typeName])

\* the calls
Calls ==
  [fn : {"fillCellTemplate"},
   type : ColumnType \cup {"custom-no-kind", "custom-unknown-kind"},
   content : Contents]
  \cup [fn : {"getCellTemplate"}, type : TypeValues, readonly : BOOLEAN,
        isIndex : BOOLEAN]
  \cup [fn : {"columnType"}, typeName : ConfigTypes, quiverType : QuiverTypes]
  \cup [fn : {"fillBooleanCell"}, readonly : BOOLEAN, content : Contents]
  \cup [fn : {"fillProgressCell"}, content : Contents]
  \cup [fn : {"fillNumberCell"}, content : NumberContents]
  \cup [fn : {"applyStreamlitThemeData", "applyStreamlitThemeLayout",
              "applyThemeDefaults"},
        object : PlotlyObjects, theme : Themes]
  \cup [fn : {"height"}, numRows : 0..MaxRows, propHeight : PropHeights]
  \cup [fn : {"onHeaderClick"}, index : 0..2,
        sort : {Undefined}
               \cup {[column |-> loaderColumns(TableA, <<>>, <<>>)[i],
                      direction |-> d,
                      mode |-> getColumnSortMode(
                         loaderColumns(TableA, <<>>, <<>>)[i].columnType)] :
                      i \in 1..3, d \in {"asc", "desc"}}]
  \cup [fn : {"applyColumnConfig"}, columnIndex : 0..2, json : JsonConfigs]
  \cup [fn : {"updateCell"}, type : ColumnType \cup {"loading"},
        newValue : Contents]
  \cup [fn : {"fillChartCell"}, type : {"bar-chart", "line-chart"},
        content : ChartContents]
  \cup [fn : {"getCellContent"}, typeName : ConfigTypes, col : 0..3,
        row : 0..2]

\* the template a fillCellTemplate call is given
TemplateOf(type) ==
  CASE type = "custom-no-kind" -> CustomNoKind
    [] type = "custom-unknown-kind" -> CustomUnknownKind
    [] OTHER -> getCellTemplate(type, TRUE, FALSE)

InitCells ==
  /\ dataProp = "A"
  /\ quiver = SourceTables
  /\ colsCfg = <<>>
  /\ cachedContent = <<>>
  /\ sortState = Undefined
  /\ columnSizes = <<>>
  /\ rendered = renderOf(dataProp, quiver, colsCfg, columnSizes, sortState,
                         cachedContent)
  /\ steps = 0
  /\ pc = "in"
  /\ call \in Calls
  /\ ret = <<>>

\* fillCellTemplate(cellTemplate, quiverCell) of DataFrameCells.tsx, of
\* DataGridCells.tsx and of part_000
Call_fillCellTemplate ==
  /\ pc = "in" /\ call.fn = "fillCellTemplate"
  /\ ret' = [dataFrame |->
               fillCellTemplate(TemplateOf(call.type),
                                QuiverCellOf(call.content), Undefined),
             dataGrid |->
               DataGridCells_fillCellTemplate(TemplateOf(call.type),
                 QuiverCellOf(call.content), Undefined),
             part000 |->
               Part000_fillCellTemplate(TemplateOf(call.type),
                 QuiverCellOf(call.content), Undefined)]
  /\ pc' = "out"
  /\ UNCHANGED <<call, frameVars>>

\* getCellTemplate(type, readonly, isIndex) of DataFrameCells.tsx and
\* getCellTemplate(type, readonly, style) of DataGridCells.tsx
Call_getCellTemplate ==
  /\ pc = "in" /\ call.fn = "getCellTemplate"
  /\ ret' = [dataFrame |->
               getCellTemplate(call.type, call.readonly, call.isIndex),
             dataGrid |->
               DataGridCells_getCellTemplate(call.type, call.readonly,
                 IF call.isIndex THEN "faded" ELSE "normal")]
  /\ pc' = "out"
  /\ UNCHANGED <<call, frameVars>>

\* the column type a column gets: from its Quiver type, from the type string
\* of its configuration, and in the columns of each component
Call_columnType ==
  /\ pc = "in" /\ call.fn = "columnType"
  /\ ret' = [fromConfig |-> getColumnTypeFromConfig(call.typeName),
             fromQuiver |-> getColumnTypeFromQuiver(call.quiverType),
             dataFrame |->
               applyColumnConfig(
                 [title |-> "b", columnIndex |-> 2,
                  columnType |-> getColumnTypeFromQuiver(call.quiverType)],
                 ConfigOfType(call.typeName)).columnType,
             dataGrid |-> determineColumnType(call.quiverType),
             part000 |->
               Part000_columnType(
                 IF call.typeName = Undefined THEN <<>>
                 ELSE [type |-> call.typeName], call.quiverType)]
  /\ pc' = "out"
  /\ UNCHANGED <<call, frameVars>>

\* fillBooleanCell(cell, data) of DataFrameCells.tsx and the boolean branch
\* of fillCellTemplate of DataGridCells.tsx
Call_fillBooleanCell ==
  /\ pc = "in" /\ call.fn = "fillBooleanCell"
  /\ ret' = [dataFrame |->
               fillBooleanCell(getCellTemplate("boolean", call.readonly,
                                               FALSE), call.content),
             dataGrid |->
               DataGridCells_fillCellTemplate(
                 DataGridCells_getCellTemplate("boolean", call.readonly,
                                               "normal"),
                 QuiverCellOf(call.content), Undefined)]
  /\ pc' = "out"
  /\ UNCHANGED <<call, frameVars>>

\* fillProgressCell(cell, data) of DataFrameCells.tsx
Call_fillProgressCell ==
  /\ pc = "in" /\ call.fn = "fillProgressCell"
  /\ ret' = [dataFrame |->
               fillProgressCell(getCellTemplate("progress-chart", TRUE,
                                                FALSE), call.content)]
  /\ pc' = "out"
  /\ UNCHANGED <<call, frameVars>>

\* getCellContent([col, row]) of the useDataLoader of DataFrame.tsx and of
\* part_000, over table A with a configured type for its column b
Call_getCellContent ==
  /\ pc = "in" /\ call.fn = "getCellContent"
  /\ ret' = [dataFrame |->
               getCellContent(TableA,
                 loaderColumns(TableA, ConfigOfType(call.typeName), <<>>),
                 numRowsOf(TableA), <<>>, call.col, call.row),
             part000 |->
               Part000_getCellContent(TableA,
                 Part000_getColumns(TableA, ConfigOfType(call.typeName)),
                 numRowsOf(TableA), call.col, call.row)]
  /\ pc' = "out"
  /\ UNCHANGED <<call, frameVars>>

\* fillNumberCell(cell, data, displayData) of DataFrameCells.tsx and the
\* number branch of fillCellTemplate of DataGridCells.tsx
Call_fillNumberCell ==
  /\ pc = "in" /\ call.fn = "fillNumberCell"
  /\ ret' = [dataFrame |->
               fillNumberCell(getCellTemplate("number", TRUE, FALSE),
                              call.content,
                              getDisplayContent(QuiverCellOf(call.content))),
             dataGrid |->
               DataGridCells_fillCellTemplate(
                 DataGridCells_getCellTemplate("number", TRUE, "normal"),
                 QuiverCellOf(call.content), Undefined)]
  /\ pc' = "out"
  /\ UNCHANGED <<call, frameVars>>

\* the theming functions of CustomTheme.tsx
Call_applyStreamlitThemeData ==
  /\ pc = "in" /\ call.fn = "applyStreamlitThemeData"
  /\ ret' = applyStreamlitThemeData(call.object, call.theme)
  /\ pc' = "out"
  /\ UNCHANGED <<call, frameVars>>

Call_applyStreamlitThemeLayout ==
  /\ pc = "in" /\ call.fn = "applyStreamlitThemeLayout"
  /\ ret' = applyStreamlitThemeLayout(call.object, call.theme)
  /\ pc' = "out"
  /\ UNCHANGED <<call, frameVars>>

Call_applyThemeDefaults ==
  /\ pc = "in" /\ call.fn = "applyThemeDefaults"
  /\ ret' = applyThemeDefaults(call.object, call.theme)
  /\ pc' = "out"
  /\ UNCHANGED <<call, frameVars>>

\* the table height of DataFrame.tsx and of the first DataGrid of part_000
Call_height ==
  /\ pc = "in" /\ call.fn = "height"
  /\ ret' = [dataFrame |-> DataFrame_height(call.numRows, call.propHeight),
             part000 |-> Part000_height(call.numRows, call.propHeight)]
  /\ pc' = "out"
  /\ UNCHANGED <<call, frameVars>>

\* onHeaderClick(index) of DataFrame.tsx and of the first DataGrid of
\* part_000, over the columns of table A and the sort of the call
Call_onHeaderClick ==
  /\ pc = "in" /\ call.fn = "onHeaderClick"
  /\ ret' = [dataFrame |->
               sortAfterClick(call.sort,
                 loaderColumns(TableA, <<>>, <<>>)[call.index + 1]),
             part000 |->
               Part000_sortAfterClick(call.sort,
                 loaderColumns(TableA, <<>>, <<>>)[call.index + 1])]
  /\ pc' = "out"
  /\ UNCHANGED <<call, frameVars>>

\* applyColumnConfig(column, columnsConfig) of DataFrame.tsx, for a column
\* of table A as getColumns builds it and the Map useDataLoader parses
Call_applyColumnConfig ==
  /\ pc = "in" /\ call.fn = "applyColumnConfig"
  /\ ret' = [dataFrame |->
               applyColumnConfig(
                 IF call.columnIndex < numIndicesOf(TableA)
                 THEN indexColumn(TableA, call.columnIndex)
                 ELSE dataColumn(TableA,
                                 call.columnIndex - numIndicesOf(TableA)),
                 columnsConfigOf(call.json))]
  /\ pc' = "out"
  /\ UNCHANGED <<call, frameVars>>

\* updateCell(cell, newValue) of DataFrameCells.tsx, for the editable
\* template of a column type or a loading cell
Call_updateCell ==
  /\ pc = "in" /\ call.fn = "updateCell"
  /\ ret' = [dataFrame |->
               updateCell(IF call.type = "loading"
                          THEN [kind |-> "loading", allowOverlay |-> FALSE]
                          ELSE getCellTemplate(call.type, FALSE, FALSE),
                          call.newValue, Undefined)]
  /\ pc' = "out"
  /\ UNCHANGED <<call, frameVars>>

\* fillChartCell(cell, data) of DataFrameCells.tsx
Call_fillChartCell ==
  /\ pc = "in" /\ call.fn = "fillChartCell"
  /\ ret' = [dataFrame |->
               fillChartCell(getCellTemplate(call.type, TRUE, FALSE),
                             call.content)]
  /\ pc' = "out"
  /\ UNCHANGED <<call, frameVars>>

NextCells ==
  \/ Call_fillCellTemplate
  \/ Call_getCellTemplate
  \/ Call_columnType
  \/ Call_fillBooleanCell
  \/ Call_fillProgressCell
  \/ Call_getCellContent
  \/ Call_fillChartCell
  \/ Call_fillNumberCell
  \/ Call_applyStreamlitThemeData
  \/ Call_applyStreamlitThemeLayout
  \/ Call_applyThemeDefaults
  \/ Call_height
  \/ Call_onHeaderClick
  \/ Call_applyColumnConfig
  \/ Call_updateCell

SpecCells == InitCells /\ [][NextCells]_vars

-----------------------------------------------------------------------------
(* Properties *)

\* the coordinates of the grid of the tables of the model
CacheCoords == (0..2) \X (0..1)

\* the nine column kinds, and the kind of grid cell each has as its template
NineKinds ==
  {"text", "number", "boolean", "list", "url", "image", "bar-chart",
   "line-chart", "progress-chart"}
ExpectedKind(type) ==
  CASE type = "text" -> "text"
    [] type = "number" -> "number"
    [] type = "boolean" -> "boolean"
    [] type = "list" -> "bubble"
    [] type = "url" -> "uri"
    [] type = "image" -> "image"
    [] type \in {"bar-chart", "line-chart", "progress-chart"} -> "custom"

\* a grid cell, as opposed to an exception
IsGridCell(x) == ~IsThrown(x) /\ "kind" \in DOMAIN x

\* the error cell: a read-only text cell in the error colour that carries a
\* message
IsErrorCell(x) ==
  /\ IsGridCell(x)
  /\ x.kind = "text"
  /\ "themeOverride" \in DOMAIN x
  /\ x.themeOverride = [textDark |-> "#ff4b4b"]
  /\ x.displayData.v # ""

\* a progress cell
IsProgressCell(x) ==
  /\ IsGridCell(x)
  /\ x.kind = "custom"
  /\ "kind" \in DOMAIN x.data
  /\ x.data.kind = "range-cell"

\* the cell getCellContent of the last render builds from the source table
\* when the cache holds nothing
builtFromSource(col, row) ==
  getCellContent(quiver[rendered.data], rendered.columns, rendered.numRows,
                 <<>>, col, row)

\* (col, row) is a coordinate of a non-empty table that has an edit stored
HasEdit(col, row) ==
  /\ ~isEmpty(quiver[rendered.data])
  /\ col <= Len(rendered.columns) - 1
  /\ EditingCache_get(cachedContent, col, row) # Undefined

\* this step is an edit whose original row at column col is row
EditAt(col, row) ==
  \E r \in 0..1, newVal \in EditedCells :
    /\ onCellEdited(col, r, newVal)
    /\ getOriginalIndex(rendered.sortMap, r) = row

\* C1: read-after-edit.  For a non-empty table and an in-range column, a
\* coordinate that has an edit stored is read as the stored cell, not as the
\* cell built from the source table, in every state; and the stored cell stays
\* what it is from one state to the next unless the step is an edit at that
\* coordinate.
C1_ReadAfterEdit ==
  /\ [](\A c \in CacheCoords :
          HasEdit(c[1], c[2]) =>
            readCell(c[1], c[2])
              = EditingCache_get(cachedContent, c[1], c[2]))
  /\ [][\A c \in CacheCoords :
          EditingCache_get(cachedContent, c[1], c[2]) # Undefined =>
            \/ EditingCache_get(cachedContent', c[1], c[2])
                 = EditingCache_get(cachedContent, c[1], c[2])
            \/ EditAt(c[1], c[2])]_vars

\* C1 witness: after an edit, a header click and the render that follows,
\* the edited coordinate is read as the stored cell, which differs from the
\* cell of the source
C1_Witness ==
  /\ rendered.sort # Undefined
  /\ \E c \in CacheCoords :
       /\ HasEdit(c[1], c[2])
       /\ readCell(c[1], c[2]) = EditingCache_get(cachedContent, c[1], c[2])
       /\ readCell(c[1], c[2]) # builtFromSource(c[1], c[2])

\* C2: the source table is never mutated.  After any sequence of reads,
\* edits, header clicks and column resizes every cell of every source table
\* has the value it had initially.
C2_SourceNeverMutated ==
  \A name \in TableNames : quiver[name].cells = SourceTables[name].cells

\* C2 witness: an edit, a sort and a resize have happened and the source
\* cells are as they were
C2_Witness ==
  /\ DOMAIN cachedContent # {}
  /\ sortState # Undefined
  /\ DOMAIN columnSizes # {}
  /\ \A name \in TableNames : quiver[name].cells = SourceTables[name].cells

\* C3: the edit cache is discarded when the table identity changes.  On a
\* step that gives the component another table, every coordinate edited under
\* the previous table is read as the cell built from the new source table.
C3_CacheDiscardedOnNewTable ==
  [][dataProp' # dataProp =>
       \A c \in CacheCoords :
         EditingCache_get(cachedContent, c[1], c[2]) # Undefined =>
           getCellContent(quiver'[rendered'.data], rendered'.columns,
                          rendered'.numRows, cachedContent', c[1], c[2])
             = getCellContent(quiver'[rendered'.data], rendered'.columns,
                              rendered'.numRows, <<>>, c[1], c[2])]_vars

\* C4: entries of the edit cache are never removed individually.  A
\* coordinate that has an entry has one in the next state; and a step that
\* changes the cache is a set(col, row, v) that makes get(col, row) return v
\* and leaves get at every other coordinate unchanged.
C4_EntriesNeverRemoved ==
  [][/\ \A c \in CacheCoords :
          EditingCache_get(cachedContent, c[1], c[2]) # Undefined =>
            EditingCache_get(cachedContent', c[1], c[2]) # Undefined
     /\ cachedContent' # cachedContent =>
          \E col \in 0..2, row \in 0..1, newVal \in EditedCells :
            /\ col <= Len(rendered.columns) - 1
            /\ row <= rendered.numRows - 1
            /\ EditingCache_get(cachedContent', col,
                                getOriginalIndex(rendered.sortMap, row))
                 = updateCell(readCellSorted(col, row), newVal.data,
                              Undefined)
            /\ \A c \in CacheCoords :
                 c # <<col, getOriginalIndex(rendered.sortMap, row)>> =>
                   EditingCache_get(cachedContent', c[1], c[2])
                     = EditingCache_get(cachedContent, c[1], c[2])]_vars

\* C4 witness: a second set in a column that already had an entry, both
\* entries being there
C4_Witness ==
  \E col \in DOMAIN cachedContent :
    Cardinality(DOMAIN cachedContent[col]) = 2

\* a call of fillCellTemplate whose template has no supported kind, or whose
\* value is invalid for the kind
FillMustFail ==
  \/ call.type \in {"custom-no-kind", "custom-unknown-kind"}
  \/ call.type = "boolean" /\ call.content.t \in {"string", "number", "array"}
  \/ call.type = "number" /\ call.content = Str("abc")
  \/ call.type \in {"bar-chart", "line-chart"}
     /\ call.content.t \in {"string", "number", "boolean"}
  \/ call.type \in {"bar-chart", "line-chart"}
     /\ call.content.t = "array"
     /\ \E i \in DOMAIN call.content.v : call.content.v[i].t # "number"
  \/ call.type = "progress-chart" /\ call.content = Str("abc")

\* C5: fillCellTemplate never throws.  For every template (a custom one
\* without or with an unknown inner kind included) and every raw value, each
\* implementation returns a grid cell, and an error cell when the kind is
\* unsupported or the value invalid.
C5_FillNeverThrows ==
  (pc = "out" /\ call.fn = "fillCellTemplate") =>
    \A impl \in DOMAIN ret :
      /\ IsGridCell(ret[impl])
      /\ FillMustFail => IsErrorCell(ret[impl])

\* C6: getCellContent never throws past the render boundary.  For every
\* coordinate, in range or not, and every configured type string, an unknown
\* one included, each implementation returns a grid cell.
C6_GetCellContentNeverThrows ==
  (pc = "out" /\ call.fn = "getCellContent") =>
    \A impl \in DOMAIN ret : IsGridCell(ret[impl])

\* C7: getCellTemplate returns a placeholder cell for each of the nine column
\* kinds and raises a hard failure for every type value outside that set, in
\* both implementations.
C7_TemplatePerKindElseThrows ==
  (pc = "out" /\ call.fn = "getCellTemplate") =>
    \A impl \in DOMAIN ret :
      IF call.type \in NineKinds
      THEN IsGridCell(ret[impl]) /\ ret[impl].kind = ExpectedKind(call.type)
      ELSE IsThrown(ret[impl])

\* C7 witness: a call with a type outside the enum has thrown
C7_Witness ==
  /\ pc = "out" /\ call.fn = "getCellTemplate"
  /\ call.type = "foo"
  /\ IsThrown(ret.dataFrame) /\ IsThrown(ret.dataGrid)

\* the kind a configured type string names once trimmed and lower-cased, ""
\* when it names none
NamedKind(typeName) ==
  IF typeName = Undefined THEN ""
  ELSE IF Join(trim(toLowerCase(typeName.v))) \in NineKinds
  THEN Join(trim(toLowerCase(typeName.v)))
  ELSE ""

\* C8: column-type inference is closed.  For every declared source type and
\* every configured type string (any case, surrounding white space, unknown
\* or empty) the kind each component assigns to the column is one of the nine
\* kinds, and text for a type string that names none.
C8_ColumnTypeClosed ==
  (pc = "out" /\ call.fn = "columnType") =>
    /\ \A impl \in DOMAIN ret : ret[impl] \in NineKinds
    /\ (call.typeName # Undefined /\ NamedKind(call.typeName) = "") =>
         ret.fromConfig = "text"

C10_ProgressClamped ==
  (pc = "out" /\ call.fn = "fillProgressCell" /\ call.content.t = "number") =>
    /\ IsProgressCell(ret.dataFrame)
    /\ ret.dataFrame.data.value
         = Num(Max(0, Min(Unit, call.content.v)))

\* C10 amended: fillProgressCell of a number within [0, 1] yields a progress
\* cell carrying that number and its percentage as the label; a number below
\* 0 or above 1, and NaN, is not clamped but yields an error cell whose text
\* says that the value has to be between 0 and 1.
C10_ProgressInRangeOrError ==
  (pc = "out" /\ call.fn = "fillProgressCell"
   /\ call.content.t \in {"number", "nan"}) =>
    IF call.content.t = "number" /\ call.content.v >= 0
       /\ call.content.v <= Unit
    THEN /\ IsProgressCell(ret.dataFrame)
         /\ ret.dataFrame.data.value = call.content
         /\ ret.dataFrame.data.label
              = ToString((call.content.v * 100) \div Unit) \o "%"
         /\ ret.dataFrame.data.min = 0 /\ ret.dataFrame.data.max = Unit
    ELSE /\ IsErrorCell(ret.dataFrame)
         /\ ret.dataFrame.data
              = Str("Incompatible progress value: " \o String(call.content)
                    \o "\nThe value has to be between 0 and 1.")

\* C10 witness: a number above 1 has been filled and came back as an error
\* cell
C10_Witness ==
  /\ pc = "out" /\ call.fn = "fillProgressCell"
  /\ call.content = Num(150)
  /\ IsErrorCell(ret.dataFrame)

\* a chart cell
IsChartCell(x) ==
  /\ IsGridCell(x)
  /\ x.kind = "custom"
  /\ "kind" \in DOMAIN x.data
  /\ x.data.kind = "sparkline-cell"

\* a non-empty array all of whose elements are numbers
IsNumberArray(x) ==
  /\ x.t = "array"
  /\ x.v # <<>>
  /\ \A i \in DOMAIN x.v : x.v[i].t = "number"

\* C11: chart-series normalization.  For every non-empty array of numbers (a
\* single element and arrays of equal elements included) fillChartCell returns
\* a chart cell in which every element of data.values is a number within
\* [0, 1].
C11_ChartValuesNormalized ==
  (pc = "out" /\ call.fn = "fillChartCell" /\ IsNumberArray(call.content)) =>
    /\ IsChartCell(ret.dataFrame)
    /\ Len(ret.dataFrame.data.values) = Len(call.content.v)
    /\ \A i \in DOMAIN ret.dataFrame.data.values :
         /\ ret.dataFrame.data.values[i].t = "number"
         /\ ret.dataFrame.data.values[i].v >= 0
         /\ ret.dataFrame.data.values[i].v <= Unit

\* C12: fillChartCell returns an error cell whenever the value is there and
\* is not an array, and whenever it is an array with at least one element
\* that does not convert to a number, the error then saying "All values in
\* the array should be numbers."
C12_ChartErrorCell ==
  (pc = "out" /\ call.fn = "fillChartCell") =>
    /\ (notNullOrUndefined(call.content)
        /\ call.content.t \notin {"array", "vector"}) =>
         IsErrorCell(ret.dataFrame)
    /\ (call.content.t \in {"array", "vector"}
        /\ \E i \in DOMAIN call.content.v :
             NumberIsNaN(Number(call.content.v[i]))) =>
         /\ IsErrorCell(ret.dataFrame)
         /\ ret.dataFrame.data
              = Str("Incompatible chart value: " \o String(call.content)
                    \o "\nAll values in the array should be numbers.")

\* the value fillNumberCell converts: the first element of an Int32Array,
\* the value itself otherwise
NumberOperand(content) ==
  IF content.t = "int32array" THEN first(content.v) ELSE content

\* the cell is a number cell
IsNumberCell(x) == IsGridCell(x) /\ x.kind = "number"

\* number parsing as the claim states it, of one returned cell
NumberParsed(content, cell) ==
  /\ ~notNullOrUndefined(content) =>
       IsNumberCell(cell) /\ cell.data = Undefined
  /\ (notNullOrUndefined(content)
      /\ ~NumberIsNaN(Number(NumberOperand(content)))) =>
       IsNumberCell(cell) /\ cell.data = Number(NumberOperand(content))
  /\ (notNullOrUndefined(content)
      /\ NumberIsNaN(Number(NumberOperand(content)))) => IsErrorCell(cell)
  /\ ~(IsNumberCell(cell) /\ cell.data = NaN)

\* C13: number parsing.  fillNumberCell of DataFrameCells.tsx and the number
\* branch of fillCellTemplate of DataGridCells.tsx return a number cell with
\* data undefined for a null or undefined value, a number cell holding the
\* numeric value for a value that converts to a number, an error cell for
\* any other value, and never a number cell whose data is NaN.
C13_NumberParsing ==
  (pc = "out" /\ call.fn = "fillNumberCell") =>
    /\ NumberParsed(call.content, ret.dataFrame)
    /\ NumberParsed(call.content, ret.dataGrid)

\* the cell carries no flag that permits editing: its readonly flag, where it
\* has one, is true, and it has no allowEdit or allowAdd flag that is true
NotEditable(cell) ==
  /\ "readonly" \in DOMAIN cell => cell.readonly
  /\ "allowEdit" \in DOMAIN cell => ~cell.allowEdit
  /\ "allowAdd" \in DOMAIN cell => ~cell.allowAdd

\* the cell has the faded style
IsFaded(cell) == "style" \in DOMAIN cell /\ cell.style = "faded"

\* C14: read-only templates.  For every column kind, getCellTemplate (of
\* DataFrameCells.tsx and of DataGridCells.tsx) called with readonly = true
\* returns a cell that does not permit editing, and called with
\* isIndex = true (style "faded") returns the faded style.
C14_ReadOnlyTemplates ==
  (pc = "out" /\ call.fn = "getCellTemplate" /\ call.type \in ColumnType) =>
    /\ call.readonly =>
         NotEditable(ret.dataFrame) /\ NotEditable(ret.dataGrid)
    /\ call.isIndex => IsFaded(ret.dataFrame) /\ IsFaded(ret.dataGrid)

\* C15: the theming functions are pure: applyStreamlitThemeData,
\* applyStreamlitThemeLayout and applyThemeDefaults return a configuration
\* object and leave the data, layout, config and theme objects passed to
\* them as they were.
C15_ThemingPure ==
  /\ (pc = "out" /\ call.fn = "applyStreamlitThemeData") =>
       ret.data = call.object /\ ret.theme = call.theme
  /\ (pc = "out" /\ call.fn = "applyStreamlitThemeLayout") =>
       ret.layout = call.object /\ ret.theme = call.theme
  /\ (pc = "out" /\ call.fn = "applyThemeDefaults") =>
       ret.config = call.object /\ ret.theme = call.theme

\* a read-only text cell whose display text is "empty"
IsEmptyTextCell(x) ==
  /\ IsGridCell(x)
  /\ x.kind = "text"
  /\ x.readonly
  /\ x.displayData = Str("empty")

\* C16: an empty table is presented as exactly one column and one row, and
\* every cell read for it, through the sort map too, is a read-only text
\* cell whose display text is "empty", whatever the editing cache holds.
C16_EmptyTable ==
  isEmpty(quiver[rendered.data]) =>
    /\ Len(rendered.columns) = 1
    /\ Len(rendered.updatedColumns) = 1
    /\ rendered.numRows = 1
    /\ \A c \in CacheCoords :
         /\ IsEmptyTextCell(readCell(c[1], c[2]))
         /\ IsEmptyTextCell(readCellSorted(c[1], 0))

\* an empty table is shown while the editing cache holds an edit
C16_Witness ==
  /\ isEmpty(quiver[rendered.data])
  /\ DOMAIN cachedContent # {}
  /\ IsEmptyTextCell(readCell(0, 0))

\* the height rule of the claim, of one component's container
HeightAsConfigured(numRows, propHeight, container) ==
  /\ (truthy(propHeight) /\ propHeight.v \div Unit >= MIN_TABLE_HEIGHT) =>
       container.height = propHeight.v \div Unit
  /\ truthy(propHeight) => container.height >= MIN_TABLE_HEIGHT
  /\ ~truthy(propHeight) =>
       container.height
         = Min(Max((numRows + 1) * ROW_HEIGHT + 3, MIN_TABLE_HEIGHT), 400)
  /\ container.minHeight <= container.height
  /\ "maxHeight" \in DOMAIN container =>
       container.height <= container.maxHeight

\* C17: table height.  For every row count and optional configured height
\* the rendered height is the configured height when one is given and is at
\* least the minimum table height (73), is
\* min(max((numRows + 1) * 35 + 3, 73), 400) when none is given, and always
\* lies between minHeight and maxHeight.
C17_TableHeight ==
  (pc = "out" /\ call.fn = "height") =>
    /\ HeightAsConfigured(call.numRows, call.propHeight, ret.dataFrame)
    /\ HeightAsConfigured(call.numRows, call.propHeight, ret.part000)

\* one step of the sort cycle: from the sort before the click on a column to
\* the sort after it
SortCycleStep(before, clicked, after) ==
  /\ (before = Undefined \/ before.column.id # clicked.id) =>
       /\ after # Undefined
       /\ after.column.id = clicked.id
       /\ after.direction = "asc"
  /\ (before # Undefined /\ before.column.id = clicked.id
      /\ before.direction = "asc") =>
       /\ after # Undefined
       /\ after.column.id = clicked.id
       /\ after.direction = "desc"
  /\ (before # Undefined /\ before.column.id = clicked.id
      /\ before.direction = "desc") => after = Undefined

\* C18: the sort cycle on header clicks.  A click on the header of a column
\* that is not the sorted one sorts it ascending, a click on the column
\* sorted ascending sorts it descending, a click on the column sorted
\* descending removes the sort; so the third of three clicks on one header
\* of an unsorted table leaves it unsorted again.  This holds of
\* onHeaderClick of DataFrame.tsx and of the DataGrid of part_000.
C18_SortCycle ==
  (pc = "out" /\ call.fn = "onHeaderClick") =>
    LET clicked == loaderColumns(TableA, <<>>, <<>>)[call.index + 1]
    IN /\ SortCycleStep(call.sort, clicked, ret.dataFrame)
       /\ SortCycleStep(call.sort, clicked, ret.part000)
       /\ call.sort = Undefined =>
            /\ sortAfterClick(sortAfterClick(ret.dataFrame, clicked), clicked)
                 = Undefined
            /\ Part000_sortAfterClick(
                 Part000_sortAfterClick(ret.part000, clicked), clicked)
                 = Undefined

\* the source row the grid shows at displayed row d, by the sort map of the
\* last render
OriginalRow(d) ==
  IF rendered.sortMap = Undefined THEN d ELSE rendered.sortMap.v[d + 1]

\* the displayed rows of the last render
DisplayedRows == 0..(rendered.numRows - 1)

\* C19: edits follow the row under sorting.  In every state each source row
\* of a non-empty table is displayed at exactly one row, and a coordinate
\* that has an edit stored is shown, at the displayed row of its source row,
\* as the stored cell; and an edit made at displayed row r that changes the
\* cache changes it only at the source row displayed there, where it puts
\* the updated cell.
C19_EditsFollowRow ==
  /\ [](~isEmpty(quiver[rendered.data]) =>
          /\ \A row \in DisplayedRows :
               \E d \in DisplayedRows :
                 /\ OriginalRow(d) = row
                 /\ \A e \in DisplayedRows : OriginalRow(e) = row => e = d
          /\ \A c \in CacheCoords, d \in DisplayedRows :
               (HasEdit(c[1], c[2]) /\ OriginalRow(d) = c[2]) =>
                 readCellSorted(c[1], d)
                   = EditingCache_get(cachedContent, c[1], c[2]))
  /\ [][cachedContent' # cachedContent =>
          \A col \in 0..2, r \in 0..1, newVal \in EditedCells :
            onCellEdited(col, r, newVal) =>
              \A c \in CacheCoords :
                \/ EditingCache_get(cachedContent', c[1], c[2])
                     = EditingCache_get(cachedContent, c[1], c[2])
                \/ /\ c = <<col, OriginalRow(r)>>
                   /\ EditingCache_get(cachedContent', c[1], c[2])
                        = updateCell(readCell(col, OriginalRow(r)),
                                     newVal.data, Undefined)]_vars

\* C19 witness: under a descending sort that reorders the rows, the edit
\* stored for the source row shown at displayed row 0, which is not source
\* row 0, is what is shown there
C19_Witness ==
  /\ ~isEmpty(quiver[rendered.data])
  /\ rendered.sortMap # Undefined
  /\ OriginalRow(0) # 0
  /\ \E col \in 0..2 :
       /\ HasEdit(col, OriginalRow(0))
       /\ EditingCache_get(cachedContent, col, 0) = Undefined
       /\ readCellSorted(col, 0)
            = EditingCache_get(cachedContent, col, OriginalRow(0))
       /\ readCellSorted(col, 0) # builtFromSource(col, OriginalRow(0))

\* C20: column resizes are never lost.  A step of onColumnResize, also one
\* of several between two renders, keeps the size stored for every column
\* id other than the one it resizes, and stores the new size for that one;
\* and no other step changes the stored sizes.
C20_ResizesNeverLost ==
  [][\A id \in DOMAIN columnSizes :
       /\ id \in DOMAIN columnSizes'
       /\ columnSizes'[id] # columnSizes[id] =>
            \E index \in 0..2, newSize \in NewSizes :
              /\ onColumnResize(index, newSize)
              /\ rendered.updatedColumns[index + 1].id = id
              /\ columnSizes'[id] = newSize]_vars

\* the ids of the columns of the source table in source order, index columns
\* first: position k (from 0) is source column k
SourceIds(table) ==
  [i \in 1..numIndicesOf(table) |-> "index-" \o ToString(i - 1)]
  \o [i \in 1..numColumnsOf(table) |->
        "column-" \o table.columns[i] \o "-" \o ToString(i - 1)]

\* the title of source column k: empty for an index column
SourceTitle(table, k) ==
  IF k < numIndicesOf(table) THEN ""
  ELSE table.columns[k - numIndicesOf(table) + 1]

\* the configuration hides source column k: it has an entry for the column,
\* under its index or its title, with hide = true
HiddenByConfig(table, k) ==
  \E key \in DOMAIN colsCfg :
    /\ \/ key.t = "number" /\ key.v = k
       \/ key.t = "string" /\ key.v = SourceTitle(table, k)
    /\ "hide" \in DOMAIN colsCfg[key]
    /\ colsCfg[key].hide = TRUE

\* C21: hiding columns does not shift data.  For a non-empty table the
\* columns of a render are, in source order with the index columns first,
\* exactly the source columns the configuration does not hide, and the cell
\* built for a visible column is the one filled from the source table at
\* that column's own source index, whatever columns before it are hidden.
C21_HidingDoesNotShift ==
  ~isEmpty(quiver[rendered.data]) =>
    LET table == quiver[rendered.data]
        ids == SourceIds(table)
    IN /\ \A k \in DOMAIN ids :
            HiddenByConfig(table, k - 1)
              <=> ~\E c \in DOMAIN rendered.columns :
                     rendered.columns[c].id = ids[k]
       /\ \A c \in DOMAIN rendered.columns :
            \E k \in DOMAIN ids :
              /\ rendered.columns[c].id = ids[k]
              /\ rendered.columns[c].isIndex <=> k <= numIndicesOf(table)
              /\ \A d \in DOMAIN rendered.columns :
                   d < c => \E j \in 1..(k - 1) :
                              rendered.columns[d].id = ids[j]
              /\ \A r \in 0..(rendered.numRows - 1) :
                   builtFromSource(c - 1, r)
                     = fillCellTemplate(
                         getCellTemplate(rendered.columns[c].columnType,
                                         ~rendered.columns[c].isEditable,
                                         rendered.columns[c].isIndex),
                         QuiverGetCell(table, r + 1, k - 1),
                         table.cssStyles)

\* C21 witness: column a is hidden, and column b, shown at position 1, shows
\* the cells of source column 2
C21_Witness ==
  /\ ~isEmpty(quiver[rendered.data])
  /\ HiddenByConfig(quiver[rendered.data], 1)
  /\ Len(rendered.columns) = 2
  /\ rendered.columns[2].id = "column-b-1"
  /\ builtFromSource(1, 0).kind = "number"
  /\ builtFromSource(1, 0).data = quiver[rendered.data].cells[1][3]

\* the column is the result of applying the configuration to it: no column
\* when hidden, else the configured title, type and editable flag
ConfigApplied(columnConfig, column) ==
  IF "hide" \in DOMAIN columnConfig /\ columnConfig.hide = TRUE
  THEN column = Null
  ELSE /\ column # Null
       /\ "title" \in DOMAIN columnConfig =>
            column.title = columnConfig.title
       /\ "type" \in DOMAIN columnConfig =>
            column.columnType = getColumnTypeFromConfig(columnConfig.type)
       /\ "editable" \in DOMAIN columnConfig =>
            column.isEditable = columnConfig.editable

\* C22: a column configuration is found by the column's index or by its
\* title, the index taking precedence.  For a configuration parsed from the
\* element's JSON, an entry keyed by a column's index is applied to that
\* column, and an entry keyed by its title when there is no index entry.
C22_ConfigByIndexOrTitle ==
  (pc = "out" /\ call.fn = "applyColumnConfig") =>
    LET title == SourceTitle(TableA, call.columnIndex)
    IN IF ToString(call.columnIndex) \in DOMAIN call.json
       THEN ConfigApplied(call.json[ToString(call.columnIndex)],
                          ret.dataFrame)
       ELSE title \in DOMAIN call.json =>
              ConfigApplied(call.json[title], ret.dataFrame)

\* C23: a configured column width w is clamped to
\* [MIN_COLUMN_WIDTH, MAX_COLUMN_WIDTH] = [35, 600]: the width of the column
\* is w when 35 <= w <= 600, 35 when w < 35 and 600 when w > 600.
C23_WidthClamped ==
  (pc = "out" /\ call.fn = "applyColumnConfig"
   /\ SourceTitle(TableA, call.columnIndex) \in DOMAIN call.json
   /\ "width" \in DOMAIN call.json[SourceTitle(TableA, call.columnIndex)]) =>
    LET w == call.json[SourceTitle(TableA, call.columnIndex)].width
    IN /\ "width" \in DOMAIN ret.dataFrame
       /\ ret.dataFrame.width
            = IF w < MIN_COLUMN_WIDTH THEN MIN_COLUMN_WIDTH
              ELSE IF w > MAX_COLUMN_WIDTH THEN MAX_COLUMN_WIDTH
              ELSE w

\* the cell kind of the cell a call of updateCell is given
EditedKind(type) ==
  CASE type = "loading" -> "loading"
    [] type \in {"line-chart", "bar-chart"} -> "sparkline-cell"
    [] type = "progress-chart" -> "range-cell"
    [] OTHER -> ExpectedKind(type)

\* the cell is of the kind and holds the new value: the value itself, its
\* text, or its number, and nothing for a missing value
HoldsValue(cell, kind, newValue) ==
  /\ IsGridCell(cell)
  /\ ~IsErrorCell(cell)
  /\ cell.kind = kind
  /\ "lastUpdated" \in DOMAIN cell
  /\ cell.data # NaN
  /\ IF ~notNullOrUndefined(newValue)
     THEN cell.data \in {newValue, Undefined, Str("")}
     ELSE \/ cell.data = newValue
          \/ cell.data = Str(String(newValue))
          \/ cell.data = Number(newValue)

\* C24: updateCell applies an edit only to text, number, boolean and url
\* cells, returning a cell of the same kind with the new value, or an error
\* cell if the value is invalid for the kind (a value that is no number for
\* a number cell, a value that is no boolean for a boolean cell); for every
\* other cell kind (list, image, chart, progress, loading) it returns the
\* error cell "Cell cannot be edited".
C24_UpdateCellKinds ==
  (pc = "out" /\ call.fn = "updateCell") =>
    LET kind == EditedKind(call.type)
        invalid ==
          /\ notNullOrUndefined(call.newValue)
          /\ \/ kind = "number" /\ NumberIsNaN(Number(call.newValue))
             \/ kind = "boolean" /\ typeof(call.newValue) # "boolean"
    IN IF kind \in {"text", "number", "boolean", "uri"}
       THEN IF invalid THEN IsErrorCell(ret.dataFrame)
            ELSE HoldsValue(ret.dataFrame, kind, call.newValue)
       ELSE /\ IsErrorCell(ret.dataFrame)
            /\ ret.dataFrame.data = Str("Cell cannot be edited: " \o kind)

\* C24 witness: an edit of a number cell with the text "0.5" gives a number
\* cell holding 0.5
C24_Witness ==
  /\ pc = "out" /\ call.fn = "updateCell"
  /\ call.type = "number" /\ call.newValue = Str("0.5")
  /\ ret.dataFrame.kind = "number"
  /\ ret.dataFrame.data = Num(50)

\* the titles a column has before the header of the sorted column is marked:
\* those of the source tables and of the configurations
OriginalTitles == {"", "a", "b", "B"}

\* C25: in every state, in the headers of the last render, exactly the
\* title of the column of that render's sort is the original title prefixed
\* by one arrow ("^ " for ascending, "v " for descending) and every other
\* title is the original one; the original titles carry no arrow, so no
\* title carries more than one, and without a sort every title is the
\* original one.
C25_OneArrowOnSortedColumn ==
  /\ Len(rendered.updatedColumns) = Len(rendered.columns)
  /\ \A i \in DOMAIN rendered.columns :
       LET original == rendered.columns[i].title
           shown == rendered.updatedColumns[i].title
       IN /\ original \in OriginalTitles
          /\ rendered.updatedColumns[i].id = rendered.columns[i].id
          /\ IF rendered.sort # Undefined
                /\ rendered.sort.column.id = rendered.columns[i].id
             THEN shown = (IF rendered.sort.direction = "asc" THEN "^ "
                           ELSE "v ") \o original
             ELSE shown = original

\* C25 witness: after two clicks on a header, each followed by a render, the
\* column is sorted descending and its title is the original one with the
\* one arrow of that direction
C25_Witness ==
  /\ rendered.sort # Undefined
  /\ rendered.sort.direction = "desc"
  /\ \E i \in DOMAIN rendered.columns :
       /\ rendered.sort.column.id = rendered.columns[i].id
       /\ rendered.columns[i].title = "a"
       /\ rendered.updatedColumns[i].title = "v a"

\* C26: an edit can only change cells of editable columns.  A step of
\* onCellEdited for a coordinate in a column whose isEditable flag is false,
\* index columns included, leaves the edit cache as it is.
C26_OnlyEditableColumnsChange ==
  [][cachedContent' # cachedContent =>
       \A col \in 0..2, r \in 0..1, newVal \in EditedCells :
         onCellEdited(col, r, newVal) =>
           rendered.columns[col + 1].isEditable]_vars

=============================================================================
